---- MODULE Spec2Model ----
(***************************************************************************)
(* A model of PuLP (src/pulp.py): the algebra of affine expressions and    *)
(* constraints, the assembly of an LpProblem, the objective fix-up around  *)
(* the writers, and the command-line solver backends.                      *)
(*                                                                         *)
(* Python values are records tagged with their kind, so that the           *)
(* isinstance dispatch of the source is a test of the tag.  Numbers are    *)
(* Python 2 ints: `/` is the floor division of ints.  A dict is a function *)
(* whose DOMAIN is the set of its keys; a Python 2 dict has no insertion   *)
(* order, so an iteration over it yields its keys in an arbitrary order.   *)
(***************************************************************************)
EXTENDS Integers, Sequences, FiniteSets, TLC

VARIABLES
    ea, err,                \* an LpAffineExpression object, the last error
    ca, cop,                \* an LpConstraint object, the last operation on it
    objective, constraints, lastUnused, noOverlap, status,   \* an LpProblem
    pop,                    \* the last operation on the LpProblem
    solver, disk,           \* the solver object, the files on disk
    run,                    \* the last operation of the writers and solvers
    varValue,               \* the value (varValue) of each LpVariable
    ident                   \* the order of the LpVariable objects by identity

exprVars == <<ea, err>>
consVars == <<ca, cop>>
probVars == <<objective, constraints, lastUnused, noOverlap, status, pop>>
solveVars == <<solver, disk, run>>
valueVars == <<varValue, ident>>
vars == <<ea, err, ca, cop, objective, constraints, lastUnused,
          noOverlap, status, pop, solver, disk, run, varValue, ident>>

(***************************************************************************)
(* Bounds of the model.                                                    *)
(***************************************************************************)
MaxCoef == 2        \* coefficients and constants stay within -MaxCoef..MaxCoef
Den == 2
MaxUnused == 2      \* lastUnused stays within 0..MaxUnused

Coefs == (-MaxCoef)..MaxCoef

(***************************************************************************)
(* Program constants.                                                      *)
(***************************************************************************)
LpConstraintLE == -1
LpConstraintEQ == 0
LpConstraintGE == 1
LpContinuous == 0
LpInteger == 1
LpMinimize == 1
LpMaximize == -1
LpStatusNotSolved == 0
LpStatusOptimal == 1
LpStatusFeasible == 2
LpStatusInfeasible == -1
LpStatusUnbounded == -2
LpStatusUndefined == -3

(***************************************************************************)
(* Python values.                                                          *)
(***************************************************************************)
Vars == {"x", "y"}                  \* the user's LpVariable objects
DummyVar == "__dummy"               \* the LpVariable that fixObjective makes
Twin == "x'"                        \* a second LpVariable made with the name x
AllVars == Vars \cup {Twin, DummyVar}
\* LpVariable.name
varName(v) == IF v = Twin THEN "x" ELSE v
NoName == ""                        \* None; every test of a name is a truth test
PyNone == [kind |-> "None"]
PyTrue == [kind |-> "True"]
PyOther == [kind |-> "other"]       \* a string, a list, False, ...
Num(n) == [kind |-> "num", n |-> n]
Var(v) == [kind |-> "var", v |-> v]
Raise(e) == [kind |-> "raise", err |-> e]
EmptyTerms == [v \in {} |-> 0]
Expr(t, c, n) == [kind |-> "expr", terms |-> t, constant |-> c, name |-> n]
Constraint(t, c, n, s) ==
    [kind |-> "constraint", terms |-> t, constant |-> c, name |-> n, sense |-> s]

isLpAffineExpression(o) == o.kind \in {"expr", "constraint"}
len(e) == Cardinality(DOMAIN e.terms)

\* Python 2: int / int is the floor of the quotient
PyDiv(a, b) == a \div b

\* LpAffineExpression.__init__(e): the name is not copied
LpAffineExpression(e) ==
    IF isLpAffineExpression(e) THEN Expr(e.terms, e.constant, NoName)
    ELSE IF e.kind = "var" THEN Expr([v \in {e.v} |-> 1], 0, NoName)
    ELSE Expr(EmptyTerms, e.n, NoName)

\* LpAffineExpression.addterm on the dict of terms t
addterm(t, key, value) ==
    LET y == IF key \in DOMAIN t THEN t[key] ELSE 0
    IN  IF y # 0
        THEN IF y + value # 0
             THEN [t EXCEPT ![key] = y + value]
             ELSE [v \in DOMAIN t \ {key} |-> t[v]]
        ELSE [v \in DOMAIN t \cup {key} |-> IF v = key THEN value ELSE t[v]]

\* for v,x in other.iteritems(): self.addterm(v, sign * x)
RECURSIVE addterms(_, _, _, _)
addterms(t, other, keys, sign) ==
    IF keys = {} THEN t
    ELSE LET k == CHOOSE k \in keys : TRUE
         IN  addterms(addterm(t, k, sign * other[k]), other, keys \ {k}, sign)

\* LpAffineExpression.addInPlace / subInPlace (sign = 1 / -1); other is a
\* number, an LpVariable, an expression or a list of these
RECURSIVE inPlace(_, _, _)
inPlace(self, other, sign) ==
    IF other.kind = "var"
    THEN [self EXCEPT !.terms = addterm(self.terms, other.v, sign)]
    ELSE IF other.kind = "list"
    THEN IF other.items = <<>> THEN self
         ELSE inPlace(inPlace(self, Head(other.items), sign),
                      [kind |-> "list", items |-> Tail(other.items)], sign)
    ELSE IF isLpAffineExpression(other)
    THEN [self EXCEPT !.constant = self.constant + sign * other.constant,
                      !.terms = addterms(self.terms, other.terms,
                                         DOMAIN other.terms, sign)]
    ELSE [self EXCEPT !.constant = self.constant + sign * other.n]

addInPlace(self, other) == inPlace(self, other, 1)
subInPlace(self, other) == inPlace(self, other, -1)

\* LpConstraint.__init__(e, sense)
LpConstraint(e, sense) == Constraint(e.terms, e.constant, NoName, sense)

\* copy and emptyCopy, of LpAffineExpression and as LpConstraint overrides them
copy(self) ==
    IF self.kind = "constraint" THEN LpConstraint(self, self.sense)
    ELSE LpAffineExpression(self)
emptyCopy(self) ==
    IF self.kind = "constraint"
    THEN LpConstraint(LpAffineExpression(Num(0)), self.sense)
    ELSE LpAffineExpression(Num(0))

\* e = self.emptyCopy(), then e.constant and the items of e are set
filled(self, t, c) == [emptyCopy(self) EXCEPT !.terms = t, !.constant = c]

\* LpAffineExpression.__neg__
neg(self) ==
    filled(self, [v \in DOMAIN self.terms |-> -self.terms[v]], -self.constant)

\* LpAffineExpression.__add__, __sub__, __rsub__
add(self, other) == addInPlace(LpAffineExpression(self), other)
sub(self, other) == subInPlace(LpAffineExpression(self), other)
rsub(self, other) == addInPlace(neg(self), other)

\* the terms of e, each multiplied by c
scaled(e, c) == [v \in DOMAIN e.terms |-> c * e.terms[v]]

\* LpAffineExpression.__mul__ that leaves the constant as it is when other
\* is a number
RECURSIVE mul_constantKept(_, _)
mul_constantKept(self, other) ==
    IF isLpAffineExpression(other)
    THEN IF len(other) # 0
         THEN IF len(self) # 0 THEN Raise("TypeError")
              ELSE filled(self, IF self.constant # 0
                                THEN scaled(other, self.constant)
                                ELSE EmptyTerms,
                          self.constant * other.constant)
         ELSE filled(self, IF other.constant # 0
                           THEN scaled(self, other.constant)
                           ELSE EmptyTerms,
                     self.constant * other.constant)
    ELSE IF other.kind = "var"
    THEN mul_constantKept(self, LpAffineExpression(other))
    ELSE filled(self, scaled(self, other.n), self.constant)

\* LpAffineExpression.__mul__
RECURSIVE mul(_, _)
mul(self, other) ==
    IF isLpAffineExpression(other)
    THEN IF len(other) # 0
         THEN IF len(self) # 0 THEN Raise("TypeError")
              ELSE filled(self, IF self.constant # 0
                                THEN scaled(other, self.constant)
                                ELSE EmptyTerms,
                          self.constant * other.constant)
         ELSE filled(self, IF other.constant # 0
                           THEN scaled(self, other.constant)
                           ELSE EmptyTerms,
                     self.constant * other.constant)
    ELSE IF other.kind = "var" THEN mul(self, LpAffineExpression(other))
    ELSE IF other.n # 0
         THEN filled(self, scaled(self, other.n), self.constant * other.n)
         ELSE emptyCopy(self)

\* LpAffineExpression.__div__: a zero divisor raises in the division itself
div(self, other) ==
    IF other.kind = "var" THEN Raise("AttributeError")
    ELSE IF isLpAffineExpression(other) /\ len(other) # 0 THEN Raise("TypeError")
    ELSE LET d == IF isLpAffineExpression(other) THEN other.constant ELSE other.n
         IN  IF d = 0 THEN Raise("ZeroDivisionError")
             ELSE filled(self,
                         [v \in DOMAIN self.terms |-> PyDiv(self.terms[v], d)],
                         PyDiv(self.constant, d))

\* lpSum(vector)
lpSum(vector) ==
    addInPlace(LpAffineExpression(Num(0)), [kind |-> "list", items |-> vector])

\* __le__, __ge__, __eq__ that subtract self from other
relational_otherMinusSelf(self, other, sense) ==
    LpConstraint(rsub(IF self.kind = "var" THEN LpAffineExpression(self) ELSE self,
                      other), sense)

\* LpAffineExpression.__le__, __ge__, __eq__ (LpVariable's wrap self first)
relational(self, other, sense) ==
    LpConstraint(sub(IF self.kind = "var" THEN LpAffineExpression(self) ELSE self,
                     other), sense)

\* Python's a <= b, a >= b, a == b: a number on the left does not know the
\* operand on the right, and the reflected operator of b is called
compare(a, b, sense) ==
    IF a.kind = "num" THEN relational(b, a, -sense) ELSE relational(a, b, sense)

\* Python's a | b on the ints -1, 0, 1 (two's complement)
PyOr(a, b) == IF a = -1 \/ b = -1 THEN -1 ELSE IF a = 1 \/ b = 1 THEN 1 ELSE 0

\* LpConstraint.addInPlace with the second branch's sense not negated
RECURSIVE LpConstraint_addInPlace_sameSense(_, _)
LpConstraint_addInPlace_sameSense(self, other) ==
    IF other.kind = "constraint"
    THEN IF self.sense * other.sense >= 0
         THEN [addInPlace(self, other) EXCEPT !.sense = PyOr(self.sense, other.sense)]
         ELSE [subInPlace(self, other) EXCEPT !.sense = PyOr(self.sense, other.sense)]
    ELSE Raise("TypeError")

\* LpConstraint.addInPlace
RECURSIVE LpConstraint_addInPlace(_, _)
LpConstraint_addInPlace(self, other) ==
    IF other.kind = "constraint"
    THEN IF self.sense * other.sense >= 0
         THEN [addInPlace(self, other) EXCEPT !.sense = PyOr(self.sense, other.sense)]
         ELSE [subInPlace(self, other) EXCEPT !.sense = PyOr(self.sense, -other.sense)]
    ELSE IF other.kind = "list"
    THEN IF other.items = <<>> THEN self
         ELSE LET first == LpConstraint_addInPlace(self, Head(other.items))
              IN  IF first.kind = "raise" THEN first
                  ELSE LpConstraint_addInPlace(
                           first, [kind |-> "list", items |-> Tail(other.items)])
    ELSE Raise("TypeError")

\* LpConstraint.subInPlace that subtracts whatever the senses are
LpConstraint_subInPlace_alwaysSub(self, other) ==
    IF other.kind = "constraint"
    THEN [subInPlace(self, other) EXCEPT !.sense = PyOr(self.sense, -other.sense)]
    ELSE Raise("TypeError")

\* LpConstraint.subInPlace
RECURSIVE LpConstraint_subInPlace(_, _)
LpConstraint_subInPlace(self, other) ==
    IF other.kind = "constraint"
    THEN IF self.sense * other.sense <= 0
         THEN [subInPlace(self, other) EXCEPT !.sense = PyOr(self.sense, -other.sense)]
         ELSE [addInPlace(self, other) EXCEPT !.sense = PyOr(self.sense, other.sense)]
    ELSE IF other.kind = "list"
    THEN IF other.items = <<>> THEN self
         ELSE LET first == LpConstraint_subInPlace(self, Head(other.items))
              IN  IF first.kind = "raise" THEN first
                  ELSE LpConstraint_subInPlace(
                           first, [kind |-> "list", items |-> Tail(other.items)])
    ELSE Raise("TypeError")

\* LpConstraint.__neg__
LpConstraint_neg(self) == [neg(self) EXCEPT !.sense = -self.sense]

\* LpConstraint.__add__, __sub__, __rsub__
LpConstraint_add(self, other) == LpConstraint_addInPlace(copy(self), other)
LpConstraint_sub(self, other) == LpConstraint_subInPlace(copy(self), other)
LpConstraint_rsub(self, other) ==
    LpConstraint_addInPlace(LpConstraint_neg(self), other)

(***************************************************************************)
(* The algebra of LpAffineExpression: an expression object ea, built and   *)
(* combined with operands by the arithmetic operations of the class.       *)
(***************************************************************************)
InBounds(e) ==
    /\ e.constant \in Coefs
    /\ \A v \in DOMAIN e.terms : e.terms[v] \in Coefs

\* the operands: LpVariables, numbers, and expressions built beforehand
Atoms == {Var(v) : v \in Vars} \cup {Num(n) : n \in Coefs}
PoolCoefs == {-MaxCoef, -1, 1, MaxCoef}
ExprPool ==
    UNION {{Expr(t, c, NoName) : t \in [S -> PoolCoefs], c \in {-1, 0, 1}} :
           S \in SUBSET Vars}
Operands == Atoms \cup ExprPool

\* the outcome of an operation whose result the user keeps as ea
Return(res) ==
    IF res.kind = "raise"
    THEN err' = res.err /\ ea' = ea
    ELSE InBounds(res) /\ err' = "none" /\ ea' = res

ExprNew ==
    /\ \E o \in Atoms : Return(LpAffineExpression(o))
    /\ UNCHANGED <<consVars, probVars, solveVars, valueVars>>
ExprAdd ==
    /\ \E o \in Operands : Return(add(ea, o))
    /\ UNCHANGED <<consVars, probVars, solveVars, valueVars>>
ExprSub ==
    /\ \E o \in Operands : Return(sub(ea, o))
    /\ UNCHANGED <<consVars, probVars, solveVars, valueVars>>
ExprRsub ==
    /\ \E o \in Operands : Return(rsub(ea, o))
    /\ UNCHANGED <<consVars, probVars, solveVars, valueVars>>
ExprNeg ==
    /\ Return(neg(ea))
    /\ UNCHANGED <<consVars, probVars, solveVars, valueVars>>
ExprMul ==
    /\ \E o \in Operands : Return(mul(ea, o))
    /\ UNCHANGED <<consVars, probVars, solveVars, valueVars>>
ExprDiv ==
    /\ \E o \in Operands : Return(div(ea, o))
    /\ UNCHANGED <<consVars, probVars, solveVars, valueVars>>
ExprAddInPlace ==
    /\ \E o \in Operands : Return(addInPlace(ea, o))
    /\ UNCHANGED <<consVars, probVars, solveVars, valueVars>>
ExprSubInPlace ==
    /\ \E o \in Operands : Return(subInPlace(ea, o))
    /\ UNCHANGED <<consVars, probVars, solveVars, valueVars>>
ExprLpSum ==
    /\ \E v \in Vars, o \in Operands : Return(lpSum(<<Var(v), o>>))
    /\ UNCHANGED <<consVars, probVars, solveVars, valueVars>>

IdleExpr == ea = LpAffineExpression(Num(0)) /\ err = "none"
IdleCons ==
    /\ ca = LpConstraint(LpAffineExpression(Num(0)), LpConstraintEQ)
    /\ cop = [op |-> "init", sense |-> LpConstraintEQ, other |-> PyNone, err |-> "none"]
IdleProb ==
    /\ objective = PyNone
    /\ constraints = EmptyTerms
    /\ lastUnused = 0
    /\ noOverlap = TRUE
    /\ status = LpStatusNotSolved
    /\ pop = [op |-> "init", kind |-> "None", own |-> NoName, given |-> NoName,
              name |-> NoName, err |-> "none", warned |-> FALSE]
\* LpSolver_CMD.__init__: keepFiles = 0, mip = 1, msg = 1
Solver(class, keepFiles, msg, mip) ==
    [class |-> class, keepFiles |-> keepFiles, msg |-> msg, mip |-> mip]
\* what run holds: the operation, the error it raised, the sequence of
\* variables and the objective row name it produced, and whether a solver
\* run wrote its model file; of a solver run also the exit code of the
\* solver process (rc), whether the process wrote the solution file
\* (solWritten), the status word that was read (word) and how the solver
\* was driven (drive); of assign its argument (values), of valid its
\* argument (eps) and what it returned (valid); of a row of the LP file the
\* lengths of its lines (lines); of the other operations their arguments
\* (args) and what they wrote or returned (lines)
Ran(op, e, vs, row, wrote) ==
    [op |-> op, err |-> e, vs |-> vs, objName |-> row, wrote |-> wrote,
     rc |-> 0, solWritten |-> FALSE, word |-> "", drive |-> {},
     values |-> EmptyTerms, eps |-> 0, valid |-> FALSE, lines |-> <<>>,
     args |-> <<>>]
IdleSolve ==
    /\ solver = Solver("GLPK_CMD", FALSE, TRUE, TRUE)
    /\ disk = {}
    /\ run = Ran("init", "none", <<>>, NoName, FALSE)
\* a varValue is None or a float, which is kept as the whole number n of
\* Num(n) that counts its parts of size 1 / Den
NoValues == [v \in AllVars |-> PyNone]
\* the hash of an LpVariable is its id(), and sort() compares LpVariable
\* objects by their addresses: sort is the order in which a sorted list
\* holds the user's variables, keys the order in which a dict that has
\* them as keys lists them
Identity(byAddress, byHash) == [sort |-> byAddress, keys |-> byHash]
IdleValue ==
    /\ varValue = NoValues
    /\ ident = Identity(<<"x", "y">>, <<"x", "y">>)

InitExpr == IdleExpr /\ IdleCons /\ IdleProb /\ IdleSolve /\ IdleValue

NextExpr ==
    \/ ExprNew
    \/ ExprAdd
    \/ ExprSub
    \/ ExprRsub
    \/ ExprNeg
    \/ ExprMul
    \/ ExprDiv
    \/ ExprAddInPlace
    \/ ExprSubInPlace
    \/ ExprLpSum

SpecExpr == InitExpr /\ [][NextExpr]_vars

\* C1: in every LpAffineExpression reachable by the arithmetic operations no
\* variable key maps to the coefficient zero
C1_NoZeroCoefficient == \A v \in DOMAIN ea.terms : ea.terms[v] # 0

(***************************************************************************)
(* The algebra of LpConstraint: a constraint object ca, built by the       *)
(* relational operators and combined with other constraints.  cop keeps    *)
(* the operation, the sense ca had before it, its operand and its error.   *)
(***************************************************************************)
Senses == {LpConstraintLE, LpConstraintEQ, LpConstraintGE}
ConsPool ==
    {relational(Var(v), Num(n), s) : v \in Vars, n \in {0, 1}, s \in Senses}
    \cup {relational(Var("x"), Var("y"), s) : s \in Senses}
ConsOperands == ConsPool \cup {Num(1), Var("x")}

ConsReturn(op, o, res) ==
    IF res.kind = "raise"
    THEN /\ ca' = ca
         /\ cop' = [op |-> op, sense |-> ca.sense, other |-> o, err |-> res.err]
    ELSE /\ InBounds(res)
         /\ ca' = res
         /\ cop' = [op |-> op, sense |-> ca.sense, other |-> o, err |-> "none"]

\* what cop keeps of an operand: its kind and, of a constraint, its sense
Seen(o) ==
    IF o.kind = "constraint" THEN [kind |-> o.kind, sense |-> o.sense]
    ELSE [kind |-> o.kind]

ConsNew ==
    /\ \E c \in ConsPool : ConsReturn("new", PyNone, c)
    /\ UNCHANGED <<exprVars, probVars, solveVars, valueVars>>
ConsAdd ==
    /\ \E o \in ConsOperands : ConsReturn("add", Seen(o), LpConstraint_add(ca, o))
    /\ UNCHANGED <<exprVars, probVars, solveVars, valueVars>>
ConsSub ==
    /\ \E o \in ConsOperands : ConsReturn("sub", Seen(o), LpConstraint_sub(ca, o))
    /\ UNCHANGED <<exprVars, probVars, solveVars, valueVars>>
ConsRsub ==
    /\ \E o \in ConsOperands : ConsReturn("rsub", Seen(o), LpConstraint_rsub(ca, o))
    /\ UNCHANGED <<exprVars, probVars, solveVars, valueVars>>
ConsNeg ==
    /\ ConsReturn("neg", PyNone, LpConstraint_neg(ca))
    /\ UNCHANGED <<exprVars, probVars, solveVars, valueVars>>
ConsAddInPlace ==
    /\ \E o \in ConsOperands :
           ConsReturn("addInPlace", Seen(o), LpConstraint_addInPlace(ca, o))
    /\ UNCHANGED <<exprVars, probVars, solveVars, valueVars>>
ConsSubInPlace ==
    /\ \E o \in ConsOperands :
           ConsReturn("subInPlace", Seen(o), LpConstraint_subInPlace(ca, o))
    /\ UNCHANGED <<exprVars, probVars, solveVars, valueVars>>
ConsAddList ==
    /\ \E o1 \in ConsPool, s \in Senses :
           ConsReturn("addList", [kind |-> "list"],
                      LpConstraint_addInPlace(
                          ca, [kind |-> "list",
                               items |-> <<o1, relational(Var("y"), Num(0), s)>>]))
    /\ UNCHANGED <<exprVars, probVars, solveVars, valueVars>>

InitCons == IdleExpr /\ IdleCons /\ IdleProb /\ IdleSolve /\ IdleValue

NextCons ==
    \/ ConsNew
    \/ ConsAdd
    \/ ConsSub
    \/ ConsRsub
    \/ ConsNeg
    \/ ConsAddInPlace
    \/ ConsSubInPlace
    \/ ConsAddList

SpecCons == InitCons /\ [][NextCons]_vars

\* the last operation added a constraint to ca, and the two had opposite
\* nonzero senses
OppositeAdd ==
    /\ cop.op \in {"add", "addInPlace"}
    /\ cop.err = "none"
    /\ cop.sense # LpConstraintEQ
    /\ cop.other.sense = -cop.sense

\* C2 as stated: adding a Constraint of nonzero sense s to one of the
\* opposite sense -s yields a Constraint whose sense is EQ
C2_OppositeSensesGiveEQ == OppositeAdd => ca.sense = LpConstraintEQ

\* C2 as amended: c1 + c2, with c1 of nonzero sense s and c2 of sense -s,
\* yields a Constraint of sense s, the sense of c1
C2_OppositeSensesKeepReceiver == OppositeAdd => ca.sense = cop.sense

\* C2: an LE constraint has been added to a GE constraint
C2_Witness == OppositeAdd /\ cop.sense = LpConstraintGE /\ len(ca) > 0

(***************************************************************************)
(* The assembly of an LpProblem.  A problem is the record of its fields;   *)
(* an operation returns the problem it leaves, with the error it raised    *)
(* (err) and whether it printed the overlap warning (warned).              *)
(***************************************************************************)
\* "_C%d" % k
CName(k) == "_C" \o ToString(k)

\* LpAffineExpression.value() of an expression without variables
constantValue(e) == e.constant

\* LpConstraint.valid(eps = 0) of a constraint without variables
LpConstraint_validEmpty(c) ==
    IF c.sense = LpConstraintEQ THEN constantValue(c) = 0
    ELSE constantValue(c) * c.sense >= 0

\* LpProblem.unusedConstraintName: the name and the new lastUnused
RECURSIVE firstUnusedFrom(_, _)
firstUnusedFrom(k, cs) ==
    IF CName(k) \notin DOMAIN cs THEN k ELSE firstUnusedFrom(k + 1, cs)
unusedConstraintName(self) ==
    LET k == firstUnusedFrom(self.lastUnused + 1, self.constraints)
    IN  [name |-> CName(k), lastUnused |-> k]

\* self.constraints[name] = constraint
setitem(cs, name, c) ==
    [n \in DOMAIN cs \cup {name} |-> IF n = name THEN c ELSE cs[n]]

Problem(o, cs, lu, no) ==
    [objective |-> o, constraints |-> cs, lastUnused |-> lu, noOverlap |-> no,
     name |-> NoName, err |-> "none", warned |-> FALSE]

\* LpProblem.__iadd__, the branch of an LpConstraint, without the test of
\* noOverlap: an overlapping name always warns and overwrites
iaddConstraint_noCheck(self, obj, given) ==
    LET auto == given = NoName /\ obj.name = NoName
        gen == unusedConstraintName(self)
        name == IF given # NoName THEN given
                ELSE IF obj.name # NoName THEN obj.name ELSE gen.name
        named == [self EXCEPT !.name = name,
                              !.lastUnused = IF auto THEN gen.lastUnused ELSE @]
    IN  IF len(obj) = 0
        THEN IF ~LpConstraint_validEmpty(obj)
             THEN [named EXCEPT !.err = "ValueError"]
             ELSE named
        ELSE [named EXCEPT
                 !.warned = name \in DOMAIN self.constraints,
                 !.constraints = setitem(self.constraints, name, obj)]

\* LpProblem.__iadd__, the branch of an LpConstraint
iaddConstraint(self, obj, given) ==
    LET auto == given = NoName /\ obj.name = NoName
        gen == unusedConstraintName(self)
        name == IF given # NoName THEN given
                ELSE IF obj.name # NoName THEN obj.name ELSE gen.name
        named == [self EXCEPT !.name = name,
                              !.lastUnused = IF auto THEN gen.lastUnused ELSE @]
    IN  IF len(obj) = 0
        THEN IF ~LpConstraint_validEmpty(obj)
             THEN [named EXCEPT !.err = "ValueError"]
             ELSE named
        ELSE IF name \in DOMAIN self.constraints /\ self.noOverlap
             THEN [named EXCEPT !.err = "overlap"]
             ELSE [named EXCEPT
                      !.warned = name \in DOMAIN self.constraints,
                      !.constraints = setitem(self.constraints, name, obj)]

\* LpProblem.__iadd__, the branches that set the objective to e
iaddObjective(self, e, given) ==
    [self EXCEPT !.objective = [e EXCEPT !.name = given], !.name = given]

\* LpProblem.__iadd__ with the test for an LpAffineExpression made first
LpProblem_iadd_exprFirst(self, obj, given) ==
    IF obj.kind = "True" THEN self
    ELSE IF isLpAffineExpression(obj)
    THEN iaddObjective(self, LpAffineExpression(obj), given)
    ELSE IF obj.kind \in {"var", "num"}
    THEN iaddObjective(self, LpAffineExpression(obj), given)
    ELSE [self EXCEPT !.err = "TypeError"]

\* LpProblem.__iadd__(constraint), or __iadd__((constraint, name))
LpProblem_iadd(self, obj, given) ==
    IF obj.kind = "True" THEN self
    ELSE IF obj.kind = "constraint" THEN iaddConstraint(self, obj, given)
    ELSE IF obj.kind = "expr" THEN iaddObjective(self, obj, given)
    ELSE IF obj.kind \in {"var", "num"}
    THEN iaddObjective(self, LpAffineExpression(obj), given)
    ELSE [self EXCEPT !.err = "TypeError"]

\* LpProblem.writeLP: the name of the objective row
objName(obj) == IF obj.name = NoName THEN "OBJ" ELSE obj.name

\* the naming and the storing of a constraint by LpProblem.add and by
\* LpProblem.extend: no test of the name or of noOverlap
stored(self, obj, given) ==
    LET auto == given = NoName /\ obj.name = NoName
        gen == unusedConstraintName(self)
        name == IF given # NoName THEN given
                ELSE IF obj.name # NoName THEN obj.name ELSE gen.name
    IN  [self EXCEPT !.name = name,
                     !.lastUnused = IF auto THEN gen.lastUnused ELSE @,
                     !.constraints = setitem(self.constraints, name, obj)]

\* LpProblem.add(constraint, name)
LpProblem_add(self, obj, given) ==
    IF obj.kind # "constraint" THEN [self EXCEPT !.err = "TypeError"]
    ELSE stored(self, obj, given)

\* LpProblem.extend(contraintes) of a list whose items are a constraint c
\* or a tuple (name, c), given as records [name, c]
RECURSIVE LpProblem_extend(_, _)
LpProblem_extend(self, items) ==
    IF items = <<>> THEN self
    ELSE LpProblem_extend(stored(self, Head(items).c, Head(items).name),
                          Tail(items))

\* LpProblem.extend(contraintes) of a dict of constraints
LpProblem_extendDict(self, d) ==
    [self EXCEPT !.constraints =
        [n \in DOMAIN self.constraints \cup DOMAIN d |->
            IF n \in DOMAIN d THEN d[n] ELSE self.constraints[n]]]

(***************************************************************************)
(* The objects the user adds to the problem, and the names given to them.  *)
(***************************************************************************)
cx == relational(Var("x"), Num(1), LpConstraintLE)
cy == [relational(Var("y"), Var("x"), LpConstraintGE) EXCEPT !.name = "a"]
cTrue == relational(LpAffineExpression(Num(0)), Num(1), LpConstraintLE)
cFalse == relational(LpAffineExpression(Num(1)), Num(0), LpConstraintLE)
e1 == add(LpAffineExpression(Var("x")), Var("y"))
e2 == [LpAffineExpression(Var("x")) EXCEPT !.name = "cost"]
ProbConstraints == {cx, cy, cTrue, cFalse}
ProbObjects == ProbConstraints \cup {e1, e2, Var("x"), Num(1), PyTrue, PyOther}
GivenNames == {NoName, "a", "_C1"}

self == Problem(objective, constraints, lastUnused, noOverlap)

\* the problem after an operation that left it as r
Left(op, obj, given, r) ==
    /\ r.lastUnused <= MaxUnused
    /\ objective' = r.objective
    /\ constraints' = r.constraints
    /\ lastUnused' = r.lastUnused
    /\ pop' = [op |-> op, kind |-> obj.kind,
               own |-> IF isLpAffineExpression(obj) THEN obj.name ELSE NoName,
               given |-> given, name |-> r.name, err |-> r.err,
               warned |-> r.warned]
    /\ run' = Ran(op, r.err, <<>>, NoName, FALSE)
    /\ UNCHANGED <<noOverlap, status>>

IAdd(obj, given) ==
    /\ Left("iadd", obj, given, LpProblem_iadd(self, obj, given))
    /\ UNCHANGED <<exprVars, consVars, solver, disk, valueVars>>

Add(obj, given) ==
    /\ Left("add", obj, given, LpProblem_add(self, obj, given))
    /\ UNCHANGED <<exprVars, consVars, solver, disk, valueVars>>

Extend(items) ==
    /\ Left("extend", [kind |-> "list"], NoName, LpProblem_extend(self, items))
    /\ UNCHANGED <<exprVars, consVars, solver, disk, valueVars>>

ExtendDict(d) ==
    /\ Left("extend", [kind |-> "dict"], NoName, LpProblem_extendDict(self, d))
    /\ UNCHANGED <<exprVars, consVars, solver, disk, valueVars>>

\* prob.noOverlap = b
SetNoOverlap(b) ==
    /\ noOverlap' = b
    /\ pop' = [op |-> "noOverlap", kind |-> "None", own |-> NoName,
               given |-> NoName, name |-> NoName, err |-> "none", warned |-> FALSE]
    /\ run' = Ran("noOverlap", "none", <<>>, NoName, FALSE)
    /\ UNCHANGED <<objective, constraints, lastUnused, status>>
    /\ UNCHANGED <<exprVars, consVars, solver, disk, valueVars>>

ExtendLists ==
    {<<[name |-> n, c |-> c1], [name |-> NoName, c |-> c2]>> :
        n \in GivenNames, c1 \in {cx, cy}, c2 \in {cx, cy}}
ExtendDicts == {[n \in {k} |-> c] : k \in {"a", "_C1"}, c \in {cx, cy}}

DoIAdd == \E obj \in ProbObjects, given \in GivenNames : IAdd(obj, given)
DoAdd == \E obj \in {cx, cy, e1}, given \in GivenNames : Add(obj, given)
DoExtend == \E items \in ExtendLists : Extend(items)
DoExtendDict == \E d \in ExtendDicts : ExtendDict(d)
DoSetNoOverlap == \E b \in BOOLEAN : SetNoOverlap(b)

InitProb == IdleExpr /\ IdleCons /\ IdleProb /\ IdleSolve /\ IdleValue

NextProb ==
    \/ DoIAdd
    \/ DoAdd
    \/ DoExtend
    \/ DoExtendDict
    \/ DoSetNoOverlap

SpecProb == InitProb /\ [][NextProb]_vars

\* the last operation was prob += c for an anonymous constraint c, given no
\* name, and c was stored
AnonymousStored ==
    /\ pop.op = "iadd" /\ pop.kind = "constraint" /\ pop.err = "none"
    /\ pop.given = NoName /\ pop.own = NoName
    /\ pop.name \in DOMAIN constraints

\* C3: an anonymous Constraint added with prob += is stored under _C<k>, k
\* the smallest integer >= 1 for which _C<k> was not already a key (so every
\* _C<j> with j < k is a key)
C3_AnonymousGetsFirstUnused ==
    AnonymousStored =>
        \E k \in 1..(MaxUnused + 1) :
            /\ pop.name = CName(k)
            /\ \A j \in 1..(k - 1) : CName(j) \in DOMAIN constraints

\* the name prob += (c, given) resolves to when c or the call names it
Resolved(obj, given) == IF given # NoName THEN given ELSE obj.name

\* C4: prob += c for a non-empty Constraint whose resolved name is already
\* a key: with noOverlap set it fails and leaves constraints as it was, with
\* noOverlap clear it replaces the entry of that name and no other
C4_OverlapFailsOrReplaces ==
    [][\A obj \in ProbConstraints, given \in GivenNames :
          (/\ pop'.op = "iadd" /\ pop'.given = given /\ pop'.own = obj.name
           /\ IAdd(obj, given)
           /\ len(obj) # 0
           /\ Resolved(obj, given) \in DOMAIN constraints)
          => IF noOverlap
             THEN pop'.err # "none" /\ constraints' = constraints
             ELSE /\ pop'.err = "none"
                  /\ DOMAIN constraints' = DOMAIN constraints
                  /\ \A n \in DOMAIN constraints :
                        constraints'[n] = IF n = Resolved(obj, given)
                                          THEN obj ELSE constraints[n]]_vars

\* C4: with noOverlap clear, prob += has replaced the constraint of a name
\* in a mapping that holds another entry too
C4_Witness ==
    /\ pop.op = "iadd" /\ pop.warned /\ ~noOverlap
    /\ Cardinality(DOMAIN constraints) > 1

\* C5: while noOverlap is true no operation replaces the constraint stored
\* under a name
C5_NoOverlapNeverReplaces ==
    [][noOverlap =>
          \A n \in DOMAIN constraints :
              n \in DOMAIN constraints' /\ constraints'[n] = constraints[n]]_vars

\* what prob += obj leaves of the problem, by the kind of obj; counterMoves
\* says whether a constraint may move the counter of the automatic names
IAddFrame(obj, counterMoves) ==
    /\ noOverlap' = noOverlap /\ status' = status
    /\ CASE obj.kind = "constraint" ->
              /\ objective' = objective
              /\ counterMoves \/ lastUnused' = lastUnused
         [] obj.kind \in {"expr", "var", "num"} ->
              /\ constraints' = constraints
              /\ lastUnused' = lastUnused
              /\ pop'.err = "none"
              /\ objective'.kind = "expr"
              /\ objective'.terms =
                    (IF obj.kind = "expr" THEN obj.terms
                     ELSE IF obj.kind = "var" THEN [v \in {obj.v} |-> 1]
                     ELSE EmptyTerms)
              /\ objective'.constant =
                    (IF obj.kind = "expr" THEN obj.constant
                     ELSE IF obj.kind = "var" THEN 0 ELSE obj.n)
         [] obj.kind = "True" ->
              /\ pop'.err = "none"
              /\ objective' = objective /\ constraints' = constraints
              /\ lastUnused' = lastUnused
         [] OTHER ->
              /\ pop'.err = "TypeError"
              /\ objective' = objective /\ constraints' = constraints
              /\ lastUnused' = lastUnused

C7_ObjectiveKeepsName ==
    (/\ pop.op = "iadd" /\ pop.kind = "expr" /\ pop.err = "none"
     /\ pop.own # NoName /\ pop.given = NoName)
    => objective.name = pop.own /\ objName(objective) = pop.own

(***************************************************************************)
(* The objective fix-up, variables() and the writers.  A writer is modelled*)
(* by its effect on the problem, the name of the objective row it writes   *)
(* and, for the MPS writer, the sequence of variables it writes and        *)
(* returns.                                                                *)
(***************************************************************************)
NoVar == ""                     \* dummyVar = None
ProblemSense == LpMinimize      \* LpProblem.__init__(name, sense = LpMinimize)

\* LpVariable.cat: y is an integer variable, the others are continuous
cat(v) == IF v = "y" THEN LpInteger ELSE LpContinuous

\* LpAffineExpression.isNumericalConstant
isNumericalConstant(e) == len(e) = 0

\* LpAffineExpression.__nonzero__, and the truth of None
nonzero(obj) == obj # PyNone /\ (obj.constant # 0 \/ len(obj) > 0)

\* LpProblem.fixObjective: the objective it leaves, wasNone and dummyVar;
\* `self.objective += dummyVar` is __add__, which works on a copy
fixObjective(obj) ==
    LET wasNone == obj = PyNone
        o0 == IF wasNone THEN Num(0) ELSE obj
        o1 == IF isLpAffineExpression(o0) THEN o0 ELSE LpAffineExpression(o0)
    IN  IF isNumericalConstant(o1)
        THEN [objective |-> add(o1, Var(DummyVar)), wasNone |-> wasNone,
              dummyVar |-> DummyVar]
        ELSE [objective |-> o1, wasNone |-> wasNone, dummyVar |-> NoVar]

\* LpProblem.restoreObjective that leaves the dummy variable in a constant
\* objective
restoreObjective_keepDummy(obj, wasNone, dummyVar) ==
    IF wasNone THEN PyNone ELSE obj

\* LpProblem.restoreObjective; `self.objective -= dummyVar` is __sub__
restoreObjective(obj, wasNone, dummyVar) ==
    IF wasNone THEN PyNone
    ELSE IF dummyVar # NoVar THEN sub(obj, Var(dummyVar))
    ELSE obj

\* the keys of the dict that LpProblem.variables() fills
variablesSet(obj, cs) ==
    (IF nonzero(obj) THEN DOMAIN obj.terms ELSE {})
        \cup UNION {DOMAIN cs[n].terms : n \in DOMAIN cs}

\* the sequences that list the elements of S once each
Perms(S) ==
    {s \in [1..Cardinality(S) -> S] :
        \A i, j \in 1..Cardinality(S) : i # j => s[i] # s[j]}

\* LpProblem.variables(): the keys() of a dict keyed by LpVariable objects,
\* whose hash is their id(); the lists it can return
variables(obj, cs) == Perms(variablesSet(obj, cs))

\* LpProblem.isMIP
isMIP(obj, cs) == \E v \in variablesSet(obj, cs) : cat(v) = LpInteger

\* LpVariable.lowBound and upBound: 0 <= x <= 1, y >= 0, and __dummy is
\* fixed to 0
lowBound(v) == Num(0)
upBound(v) ==
    IF v = DummyVar THEN Num(0) ELSE IF v = "x" THEN Num(1) ELSE PyNone

\* LpVariable.isBinary
isBinary(v) == cat(v) = LpInteger /\ lowBound(v) = Num(0) /\ upBound(v) = Num(1)

\* abs(round(value) - value) of the float n / Den
intDist(n) ==
    IF (n % Den) <= Den - (n % Den) THEN n % Den ELSE Den - (n % Den)

\* LpVariable.valid without the test of integer variables
LpVariable_valid_boundsOnly(v, val, eps) ==
    IF val = PyNone THEN FALSE
    ELSE IF upBound(v) # PyNone /\ val.n > upBound(v).n * Den + eps THEN FALSE
    ELSE IF lowBound(v) # PyNone /\ val.n < lowBound(v).n * Den - eps THEN FALSE
    ELSE TRUE

\* LpVariable.valid
LpVariable_valid(v, val, eps) ==
    IF val = PyNone THEN FALSE
    ELSE IF upBound(v) # PyNone /\ val.n > upBound(v).n * Den + eps THEN FALSE
    ELSE IF lowBound(v) # PyNone /\ val.n < lowBound(v).n * Den - eps THEN FALSE
    ELSE IF cat(v) = LpInteger /\ intDist(val.n) > eps THEN FALSE
    ELSE TRUE

\* LpAffineExpression.value: None when a variable has no value
RECURSIVE sumTerms(_, _, _)
sumTerms(terms, S, vv) ==
    IF S = {} THEN 0
    ELSE LET v == CHOOSE u \in S : TRUE
         IN  vv[v].n * terms[v] + sumTerms(terms, S \ {v}, vv)
LpAffineExpression_value(e, vv) ==
    IF \E v \in DOMAIN e.terms : vv[v] = PyNone THEN PyNone
    ELSE Num(e.constant * Den + sumTerms(e.terms, DOMAIN e.terms, vv))

\* LpConstraint.valid: abs(None) and None * sense are type errors
LpConstraint_valid(c, vv, eps) ==
    IF LpAffineExpression_value(c, vv) = PyNone
    THEN [err |-> "TypeError", result |-> FALSE]
    ELSE IF c.sense = LpConstraintEQ
    THEN [err |-> "none",
          result |-> LpAffineExpression_value(c, vv).n <= eps
                     /\ -LpAffineExpression_value(c, vv).n <= eps]
    ELSE [err |-> "none",
          result |-> LpAffineExpression_value(c, vv).n * c.sense >= -eps]

\* LpProblem.valid: a variable without value ends the first loop with False
LpProblem_valid(obj, cs, vv, eps) ==
    IF \E v \in variablesSet(obj, cs) : ~LpVariable_valid(v, vv[v], eps)
    THEN FALSE
    ELSE \A k \in DOMAIN cs : LpConstraint_valid(cs[k], vv, eps).result

\* LpProblem.variablesDict: the variables by name. Of several variables
\* with one name the dict keeps the one that is stored last: one of a
\* constraint if a constraint has one, since the objective is read first
held(obj, cs, n) ==
    IF \E v \in UNION {DOMAIN cs[k].terms : k \in DOMAIN cs} : varName(v) = n
    THEN {v \in UNION {DOMAIN cs[k].terms : k \in DOMAIN cs} : varName(v) = n}
    ELSE {v \in variablesSet(obj, cs) : varName(v) = n}
variablesDict(obj, cs) ==
    {d \in [{varName(v) : v \in variablesSet(obj, cs)} -> variablesSet(obj, cs)] :
        \A n \in DOMAIN d : d[n] \in held(obj, cs, n)}

\* LpProblem.assign that passes over the names the dict does not hold
LpProblem_assign_skipUnknown(obj, cs, vv, values) ==
    {[err |-> "none",
      varValue |-> [v \in DOMAIN vv |->
                      IF v \in variablesSet(obj, cs) /\ varName(v) \in DOMAIN values
                      THEN values[varName(v)] ELSE vv[v]]]}

\* the values once assign has stored values[n] for the names n of S
assigned(vv, d, values, S) ==
    [v \in DOMAIN vv |->
        IF \E n \in S : d[n] = v THEN values[CHOOSE n \in S : d[n] = v]
        ELSE vv[v]]

\* LpProblem.assign: a name that the dict does not hold raises KeyError
\* once the names before it in the iteration of values are stored
LpProblem_assign(obj, cs, vv, values) ==
    UNION {IF DOMAIN values \subseteq DOMAIN d
           THEN {[err |-> "none",
                  varValue |-> assigned(vv, d, values, DOMAIN values)]}
           ELSE {[err |-> "KeyError", varValue |-> assigned(vv, d, values, S)] :
                    S \in SUBSET (DOMAIN values \cap DOMAIN d)}
           : d \in variablesDict(obj, cs)}

\* LpProblem.writeLP: the sections Generals and Binaries that it writes for
\* the variables vs
sections(vs, mip) ==
    IF ~mip THEN {}
    ELSE (IF \E v \in vs : cat(v) = LpInteger /\ ~isBinary(v)
          THEN {"Generals"} ELSE {})
         \cup (IF \E v \in vs : isBinary(v) THEN {"Binaries"} ELSE {})

\* LpProblem.writeLP
LpProblem_writeLP(obj) ==
    LET f == fixObjective(obj)
    IN  [objective |-> restoreObjective(f.objective, f.wasNone, f.dummyVar),
         objName |-> objName(f.objective)]

\* LpProblem.writeMPS: cobj is self.objective itself unless it is negated, so
\* that rename names the objective of the problem "OBJ"; fixed is the
\* objective while the file is written
LpProblem_writeMPS(obj, mpsSense, rename) ==
    LET f == fixObjective(obj)
        negated == (IF mpsSense = 0 THEN ProblemSense ELSE mpsSense) # ProblemSense
        cobj == IF negated
                THEN [neg(f.objective) EXCEPT !.name = f.objective.name]
                ELSE f.objective
        named == IF rename THEN [cobj EXCEPT !.name = "OBJ"] ELSE cobj
        fixed == IF negated THEN f.objective ELSE named
    IN  [objective |-> restoreObjective(fixed, f.wasNone, f.dummyVar),
         objName |-> objName(named), fixed |-> fixed]

(***************************************************************************)
(* The command-line backends.  The environment of a run says whether the   *)
(* executable is found (exec), the exit status of the solver process (rc), *)
(* whether the process wrote the solution file (wrote), what a reader finds*)
(* in the solution file (sol) and, for XPRESS, whether the values read     *)
(* leave an infeasibility gap (gap).  The solution file holds a status     *)
(* word, is well formed or not, and names only variables of the problem or *)
(* not.  actualSolve returns the objective and status of the problem, the  *)
(* files on disk, the error raised and whether the model file was written. *)
(***************************************************************************)
\* tmpLp and tmpSol; lp.name is "NoName" by default
TmpPrefix(s) == IF s.keepFiles THEN "NoName-pulp" ELSE "pid-pulp"
TmpLp(s) == TmpPrefix(s) \o (IF s.class = "COIN_CMD" THEN ".mps" ELSE ".lp")
TmpSol(s) ==
    TmpPrefix(s) \o (CASE s.class = "CPLEX_CMD" -> ".txt"
                       [] s.class = "XPRESS" -> ".prt"
                       [] OTHER -> ".sol")

\* glpkStatus with INTEGER NON-OPTIMAL taken for an optimum
glpkStatus_nonOptimalIsOptimal ==
    ("INTEGER OPTIMAL" :> LpStatusOptimal)
    @@ ("INTEGER NON-OPTIMAL" :> LpStatusOptimal)
    @@ ("OPTIMAL" :> LpStatusOptimal)
    @@ ("INFEASIBLE (FINAL)" :> LpStatusInfeasible)
    @@ ("INTEGER EMPTY" :> LpStatusInfeasible)
    @@ ("INTEGER UNDEFINED" :> LpStatusUndefined)
    @@ ("UNBOUNDED" :> LpStatusUnbounded)
    @@ ("UNDEFINED" :> LpStatusUndefined)

\* the status tables of GLPK_CMD.readsol, CPLEX_CMD.readsol and XPRESS.readsol
glpkStatus ==
    ("INTEGER OPTIMAL" :> LpStatusOptimal)
    @@ ("INTEGER NON-OPTIMAL" :> LpStatusFeasible)
    @@ ("OPTIMAL" :> LpStatusOptimal)
    @@ ("INFEASIBLE (FINAL)" :> LpStatusInfeasible)
    @@ ("INTEGER EMPTY" :> LpStatusInfeasible)
    @@ ("INTEGER UNDEFINED" :> LpStatusUndefined)
    @@ ("UNBOUNDED" :> LpStatusUnbounded)
    @@ ("UNDEFINED" :> LpStatusUndefined)
cplexStatus == ("OPTIMAL SOLN" :> LpStatusOptimal)
xpressStatus == ("Optimal" :> LpStatusOptimal)

Sol(word, wellFormed, names) ==
    [word |-> word, wellFormed |-> wellFormed, names |-> names]
Env(exec, rc, wrote, sol, gap) ==
    [exec |-> exec, rc |-> rc, wrote |-> wrote, sol |-> sol, gap |-> gap]
Out(obj, st, d, e, wrote) ==
    [objective |-> obj, status |-> st, disk |-> d, err |-> e, wrote |-> wrote]

\* readsol of GLPK_CMD, CPLEX_CMD and XPRESS: the status of the word
readsol(table, sol) ==
    IF ~sol.wellFormed THEN [err |-> "ParseError", status |-> LpStatusNotSolved]
    ELSE IF sol.word \notin DOMAIN table
    THEN [err |-> "ValueError", status |-> LpStatusNotSolved]
    ELSE [err |-> "none", status |-> table[sol.word]]

\* the files after the solver process has run
afterRun(s, d, env) == IF env.wrote THEN d \cup {TmpSol(s)} ELSE d
\* os.remove of both temporary files unless keepFiles
removed(s, d) == IF s.keepFiles THEN d ELSE d \ {TmpLp(s), TmpSol(s)}

\* GLPK_CMD.actualSolve from the start of the solver process: wobj is the
\* objective that writeLP has left, d the files once the process has run,
\* r what readsol returns
GLPK_CMD_run(s, wobj, st, d, r, env) ==
    IF (IF ~s.msg THEN env.rc # 0 ELSE env.rc = 127)
    THEN Out(wobj, st, d, "execute", TRUE)
    ELSE IF TmpSol(s) \notin d THEN Out(wobj, st, d, "no solution", TRUE)
    ELSE IF r.err # "none" THEN Out(wobj, st, d, r.err, TRUE)
    ELSE IF ~env.sol.names THEN Out(wobj, r.status, d, "KeyError", TRUE)
    ELSE Out(wobj, r.status, removed(s, d), "none", TRUE)

GLPK_CMD_actualSolve(s, obj, cs, st, d, env) ==
    IF ~env.exec THEN Out(obj, st, d, "cannot execute", FALSE)
    ELSE GLPK_CMD_run(s, LpProblem_writeLP(obj).objective, st,
                      afterRun(s, d \cup {TmpLp(s)}, env),
                      readsol(glpkStatus, env.sol), env)

\* CPLEX_CMD_run with the status Infeasible set before the exit status of
\* the solver process is looked at
CPLEX_CMD_run_statusFirst(s, wobj, st, d, r, env) ==
    IF env.rc # 0 THEN Out(wobj, LpStatusInfeasible, d, "execute", TRUE)
    ELSE IF TmpSol(s) \notin d
    THEN Out(wobj, LpStatusInfeasible, removed(s, d), "none", TRUE)
    ELSE IF r.err # "none"
    THEN Out(wobj, st, IF s.keepFiles THEN d ELSE d \ {TmpLp(s)}, r.err, TRUE)
    ELSE IF r.status # LpStatusInfeasible /\ ~env.sol.names
    THEN Out(wobj, st, removed(s, d), "KeyError", TRUE)
    ELSE Out(wobj, r.status, removed(s, d), "none", TRUE)

\* CPLEX_CMD.actualSolve from the start of the solver process; tmpLp is
\* removed before the solution is looked for, tmpSol after it is read
CPLEX_CMD_run(s, wobj, st, d, r, env) ==
    IF env.rc # 0 THEN Out(wobj, st, d, "execute", TRUE)
    ELSE IF TmpSol(s) \notin d
    THEN Out(wobj, LpStatusInfeasible, removed(s, d), "none", TRUE)
    ELSE IF r.err # "none"
    THEN Out(wobj, st, IF s.keepFiles THEN d ELSE d \ {TmpLp(s)}, r.err, TRUE)
    ELSE IF r.status # LpStatusInfeasible /\ ~env.sol.names
    THEN Out(wobj, st, removed(s, d), "KeyError", TRUE)
    ELSE Out(wobj, r.status, removed(s, d), "none", TRUE)

\* CPLEX_CMD.actualSolve: a tmpSol left by an earlier run is removed before
\* the solver process starts
CPLEX_CMD_actualSolve(s, obj, cs, st, d, env) ==
    IF ~env.exec THEN Out(obj, st, d, "cannot execute", FALSE)
    ELSE CPLEX_CMD_run(s, LpProblem_writeLP(obj).objective, st,
                       afterRun(s, (d \cup {TmpLp(s)}) \ {TmpSol(s)}, env),
                       readsol(cplexStatus, env.sol), env)

\* XPRESS.actualSolve from the start of the solver process
XPRESS_run(s, wobj, st, d, r, env) ==
    IF env.rc # 0 THEN Out(wobj, st, d, "execute", TRUE)
    ELSE IF TmpSol(s) \notin d THEN Out(wobj, st, d, "IOError", TRUE)
    ELSE IF r.err # "none" THEN Out(wobj, st, d, r.err, TRUE)
    ELSE IF ~env.sol.names
    THEN Out(wobj, r.status, removed(s, d), "KeyError", TRUE)
    ELSE Out(wobj, IF env.gap THEN LpStatusInfeasible ELSE r.status,
             removed(s, d), "none", TRUE)

XPRESS_actualSolve(s, obj, cs, st, d, env) ==
    IF ~env.exec THEN Out(obj, st, d, "cannot execute", FALSE)
    ELSE XPRESS_run(s, LpProblem_writeLP(obj).objective, st,
                    afterRun(s, d \cup {TmpLp(s)}, env),
                    readsol(xpressStatus, env.sol), env)

\* COIN_CMD_run with the status of readsol_CLP on both paths
COIN_CMD_run_clpStatus(s, cbc, wobj, st, d, env) ==
    IF env.rc # 0 THEN Out(wobj, st, d, "execute", TRUE)
    ELSE IF TmpSol(s) \notin d THEN Out(wobj, st, d, "no solution", TRUE)
    ELSE IF ~env.sol.wellFormed THEN Out(wobj, st, d, "ParseError", TRUE)
    ELSE Out(wobj,
             IF env.sol.word = "**" THEN LpStatusInfeasible ELSE LpStatusOptimal,
             removed(s, d), "none", TRUE)

\* COIN_CMD.solve_CBC (cbc) and solve_CLP from the start of the solver
\* process, with readsol_CBC and readsol_CLP
COIN_CMD_run(s, cbc, wobj, st, d, env) ==
    IF env.rc # 0 THEN Out(wobj, st, d, "execute", TRUE)
    ELSE IF TmpSol(s) \notin d THEN Out(wobj, st, d, "no solution", TRUE)
    ELSE IF ~env.sol.wellFormed THEN Out(wobj, st, d, "ParseError", TRUE)
    ELSE IF cbc
    THEN IF ~env.sol.names
         THEN Out(wobj, LpStatusUndefined, d, "KeyError", TRUE)
         ELSE Out(wobj, LpStatusUndefined, removed(s, d), "none", TRUE)
    ELSE Out(wobj,
             IF env.sol.word = "**" THEN LpStatusInfeasible ELSE LpStatusOptimal,
             removed(s, d), "none", TRUE)

\* solve_CBC writes the MPS file with rename = 0, solve_CLP with rename = 1
COIN_CMD_solve(s, cbc, obj, st, d, env) ==
    IF ~env.exec THEN Out(obj, st, d, "cannot execute", FALSE)
    ELSE COIN_CMD_run(s, cbc, LpProblem_writeMPS(obj, 0, ~cbc).objective, st,
                      afterRun(s, d \cup {TmpLp(s)}, env), env)

\* COIN_CMD.actualSolve: solve_CBC when lp.isMIP() and self.mip
COIN_CMD_actualSolve(s, obj, cs, st, d, env) ==
    COIN_CMD_solve(s, isMIP(obj, cs) /\ s.mip, obj, st, d, env)

\* driven with the mip attribute of the solver taken for true
driven_mipAlways(s, obj, cs) ==
    CASE s.class = "GLPK_CMD" ->
            {"glpsol"} \cup sections(variablesSet(obj, cs), TRUE)
      [] s.class = "CPLEX_CMD" ->
            {"cplex", "optimize"}
                \cup (IF ~isMIP(obj, cs) THEN {}
                      ELSE {"mipopt", "change problem fixed"})
                \cup sections(variablesSet(obj, cs), TRUE)
      [] s.class = "XPRESS" ->
            {"xpress"} \cup (IF isMIP(obj, cs) THEN {"GLOBAL"} ELSE {})
                \cup sections(variablesSet(obj, cs), TRUE)
      [] OTHER -> IF isMIP(obj, cs) THEN {"cbc", "branch"} ELSE {"clp"}

\* how actualSolve drives the solver: the program it starts, the flags and
\* the commands it gives it, and the sections of the LP file it has written
driven(s, obj, cs) ==
    CASE s.class = "GLPK_CMD" ->
            {"glpsol"} \cup (IF ~s.mip THEN {"--nomip"} ELSE {})
                \cup sections(variablesSet(obj, cs), TRUE)
      [] s.class = "CPLEX_CMD" ->
            {"cplex", "optimize"}
                \cup (IF ~isMIP(obj, cs) THEN {}
                      ELSE IF s.mip THEN {"mipopt", "change problem fixed"}
                      ELSE {"change problem relaxed_milp"})
                \cup sections(variablesSet(obj, cs), TRUE)
      [] s.class = "XPRESS" ->
            {"xpress"} \cup (IF isMIP(obj, cs) /\ s.mip THEN {"GLOBAL"} ELSE {})
                \cup sections(variablesSet(obj, cs), s.mip)
      [] OTHER -> IF isMIP(obj, cs) /\ s.mip THEN {"cbc", "branch"} ELSE {"clp"}

actualSolve(s, obj, cs, st, d, env) ==
    CASE s.class = "GLPK_CMD" -> GLPK_CMD_actualSolve(s, obj, cs, st, d, env)
      [] s.class = "CPLEX_CMD" -> CPLEX_CMD_actualSolve(s, obj, cs, st, d, env)
      [] s.class = "XPRESS" -> XPRESS_actualSolve(s, obj, cs, st, d, env)
      [] OTHER -> COIN_CMD_actualSolve(s, obj, cs, st, d, env)

\* LpProblem.solve once fixObjective has returned f and actualSolve r: an
\* error of actualSolve skips restoreObjective
solved(f, r) ==
    IF r.err # "none" THEN r
    ELSE [r EXCEPT !.objective =
             restoreObjective(r.objective, f.wasNone, f.dummyVar)]
solveFixed(s, f, cs, st, d, env) ==
    solved(f, actualSolve(s, f.objective, cs, st, d, env))

\* LpProblem.solve
LpProblem_solve(s, obj, cs, st, d, env) ==
    solveFixed(s, fixObjective(obj), cs, st, d, env)

\* the values when fixObjective has returned f: a dummy variable is a new
\* LpVariable and has no value
fixValues(f, vv) ==
    IF f.dummyVar # NoVar THEN [vv EXCEPT ![DummyVar] = PyNone] ELSE vv
\* the values that the solution file gives: SolValue for every variable of
\* the problem and, unless names, for a name the problem does not hold
SolValue == Num(Den)
solValues(obj, cs, names) ==
    [n \in {varName(v) : v \in variablesSet(obj, cs)}
            \cup (IF names THEN {} ELSE {"?"}) |-> SolValue]
\* the values after lp.assign(values) in actualSolve, which CPLEX_CMD skips
\* for the status Infeasible, and after restoreObjective
solveValues(s, r, f, cs, vv) ==
    IF r.err = "KeyError"
    THEN {o.varValue : o \in LpProblem_assign(f.objective, cs, vv,
                                              solValues(f.objective, cs, FALSE))}
    ELSE IF r.err # "none" THEN {vv}
    ELSE IF s.class = "CPLEX_CMD" /\ r.status = LpStatusInfeasible
    THEN {fixValues(f, vv)}
    ELSE {fixValues(f, o.varValue) :
            o \in LpProblem_assign(f.objective, cs, vv,
                                   solValues(f.objective, cs, TRUE))}

(***************************************************************************)
(* A problem is assembled, listed, written and solved with one solver      *)
(* object.                                                                 *)
(***************************************************************************)
Solvers ==
    {Solver("GLPK_CMD", k, m, TRUE) : k \in BOOLEAN, m \in BOOLEAN}
        \cup {Solver(c, k, TRUE, TRUE) : c \in {"CPLEX_CMD", "XPRESS"}, k \in BOOLEAN}
        \cup {Solver("COIN_CMD", k, TRUE, m) : k \in BOOLEAN, m \in BOOLEAN}

Words(class) ==
    CASE class = "GLPK_CMD" -> DOMAIN glpkStatus \cup {"?"}
      [] class = "CPLEX_CMD" -> DOMAIN cplexStatus \cup {"?"}
      [] class = "XPRESS" -> DOMAIN xpressStatus \cup {"?"}
      [] OTHER -> {"", "**"}
\* of the status words of GLPK one that its table holds and one that it
\* does not
SomeWords(class) ==
    IF class = "GLPK_CMD" THEN {"OPTIMAL", "?"} ELSE Words(class)
Sols(words) ==
    {Sol("?", FALSE, TRUE)}
        \cup {Sol(w, TRUE, n) : w \in words, n \in BOOLEAN}
ErrorCodes(class) == IF class = "GLPK_CMD" THEN {1, 127} ELSE {1}
Gaps(class) == IF class = "XPRESS" THEN BOOLEAN ELSE {FALSE}
\* the executable is not found; or the process exits with an error; or it
\* exits with 0: in each case what the run does not read is left out
Envs(class) ==
    {Env(FALSE, 0, FALSE, Sol("?", FALSE, TRUE), FALSE)}
        \cup {Env(TRUE, rc, wrote, Sol("?", FALSE, TRUE), FALSE) :
                rc \in ErrorCodes(class), wrote \in BOOLEAN}
        \cup {Env(TRUE, 0, wrote, sol, gap) :
                wrote \in BOOLEAN, sol \in Sols(SomeWords(class)),
                gap \in Gaps(class)}

SolveObjects == {cy, Var("x"), Num(1)}
OutFile == "out"

\* pop after an operation that is not an addition to the problem
Op(op) ==
    [op |-> op, kind |-> "None", own |-> NoName, given |-> NoName,
     name |-> NoName, err |-> "none", warned |-> FALSE]

\* prob += obj
Build ==
    \E obj \in SolveObjects : IAdd(obj, NoName)

\* prob.variables()
Variables ==
    /\ \E vs \in variables(objective, constraints) :
          run' = Ran("variables", "none", vs, NoName, FALSE)
    /\ pop' = Op("variables")
    /\ UNCHANGED <<objective, constraints, lastUnused, noOverlap, status>>
    /\ UNCHANGED <<exprVars, consVars, solver, disk, valueVars>>

\* the values after a solve that returned r, fixObjective having returned f
Assigned(r, f) ==
    varValue' \in solveValues(solver, r, f, constraints, fixValues(f, varValue))

\* prob.writeLP(OutFile)
WriteLP ==
    /\ LET w == LpProblem_writeLP(objective)
       IN  /\ objective' = w.objective
           /\ run' = Ran("writeLP", "none", <<>>, w.objName, FALSE)
    /\ disk' = disk \cup {OutFile}
    /\ pop' = Op("writeLP")
    /\ UNCHANGED <<constraints, lastUnused, noOverlap, status>>
    /\ varValue' = fixValues(fixObjective(objective), varValue)
    /\ UNCHANGED <<exprVars, consVars, solver, ident>>

\* prob.writeMPS(OutFile, mpsSense, rename)
WriteMPS ==
    /\ \E mpsSense \in {0, LpMinimize, LpMaximize}, rename \in BOOLEAN :
          LET w == LpProblem_writeMPS(objective, mpsSense, rename)
          IN  /\ objective' = w.objective
              /\ \E vs \in variables(w.fixed, constraints) :
                    run' = Ran("writeMPS", "none", vs, w.objName, FALSE)
    /\ disk' = disk \cup {OutFile}
    /\ pop' = Op("writeMPS")
    /\ UNCHANGED <<constraints, lastUnused, noOverlap, status>>
    /\ varValue' = fixValues(fixObjective(objective), varValue)
    /\ UNCHANGED <<exprVars, consVars, solver, ident>>

\* the problem, the disk and run after a solve that returned r
Solved(r, env) ==
    /\ objective' = r.objective
    /\ status' = r.status
    /\ disk' = r.disk
    /\ run' = [Ran("solve", r.err, <<>>, NoName, r.wrote) EXCEPT
                  !.rc = env.rc,
                  !.solWritten = env.wrote,
                  !.word = IF r.err \in {"none", "KeyError", "ValueError"}
                           THEN env.sol.word ELSE "",
                  !.drive = IF r.wrote
                            THEN driven(solver, fixObjective(objective).objective,
                                        constraints)
                            ELSE {}]
    /\ Assigned(r, fixObjective(objective))

\* prob.solve(solver)
Solve ==
    /\ \E env \in Envs(solver.class) :
          Solved(LpProblem_solve(solver, objective, constraints, status,
                                 disk, env), env)
    /\ pop' = Op("solve")
    /\ UNCHANGED <<constraints, lastUnused, noOverlap>>
    /\ UNCHANGED <<exprVars, consVars, solver, ident>>

InitSolve ==
    /\ IdleExpr /\ IdleCons /\ IdleProb /\ IdleValue
    /\ solver \in Solvers
    /\ disk = {}
    /\ run = Ran("init", "none", <<>>, NoName, FALSE)

NextSolve ==
    \/ Build
    \/ Variables
    \/ WriteLP
    \/ WriteMPS
    \/ Solve

SpecSolve == InitSolve /\ [][NextSolve]_vars

\* the objective is absent or a pure constant
AbsentOrConstant(obj) == obj = PyNone \/ isNumericalConstant(obj)

\* C8: when writeLP, writeMPS or solve returns normally on a problem whose
\* objective was absent or a pure constant, __dummy is neither in the
\* objective nor in variables(), an absent objective is absent again and a
\* constant objective has the same constant and no terms
C8_DummyRemoved ==
    [][(/\ run'.op \in {"writeLP", "writeMPS", "solve"}
        /\ run'.err = "none"
        /\ AbsentOrConstant(objective))
       => /\ DummyVar \notin variablesSet(objective', constraints')
          /\ IF objective = PyNone THEN objective' = PyNone
             ELSE /\ objective' # PyNone
                  /\ DummyVar \notin DOMAIN objective'.terms
                  /\ objective'.constant = objective.constant
                  /\ len(objective') = 0]_vars

\* C8: a solve has returned normally on a problem that has constraints and
\* a constant objective
C8_Witness ==
    /\ run.op = "solve" /\ run.err = "none"
    /\ objective # PyNone /\ isNumericalConstant(objective)
    /\ objective.constant = 1
    /\ DOMAIN constraints # {}

\* C9: variables() lists the variables in discovery order, so that the
\* variables of the objective come before every variable that only a
\* constraint holds
C9_ObjectiveVariablesFirst ==
    run.op = "variables" =>
        \A i, j \in DOMAIN run.vs :
            (i < j /\ objective # PyNone /\ run.vs[j] \in DOMAIN objective.terms)
            => run.vs[i] \in DOMAIN objective.terms

\* C10: with keepFiles false, once the solve of a command-line backend has
\* returned normally or failed after the model file was written, neither
\* the temporary model file nor the temporary solution file is on disk
C10_NoTemporaryLeft ==
    (/\ run.op = "solve" /\ ~solver.keepFiles
     /\ (run.err = "none" \/ run.wrote))
    => TmpLp(solver) \notin disk /\ TmpSol(solver) \notin disk

(***************************************************************************)
(* A problem is solved with every configuration of the command-line        *)
(* backends: each class with both values of keepFiles, msg and mip.        *)
(***************************************************************************)
Classes == {"GLPK_CMD", "CPLEX_CMD", "XPRESS", "COIN_CMD"}
AllSolvers ==
    {Solver(c, k, m, i) : c \in Classes, k \in BOOLEAN, m \in BOOLEAN,
                          i \in BOOLEAN}

\* what the solver process can do: the executable is not found, or the
\* process exits with an error or with 0, having written a solution file
\* or not
BackendEnvs(class) ==
    {Env(FALSE, 0, FALSE, Sol("?", FALSE, TRUE), FALSE)}
        \cup {Env(TRUE, rc, wrote, sol, FALSE) :
                rc \in ErrorCodes(class), wrote \in BOOLEAN,
                sol \in Sols(SomeWords(class))}
        \cup {Env(TRUE, 0, wrote, sol, gap) :
                wrote \in BOOLEAN, sol \in Sols(Words(class)),
                gap \in Gaps(class)}

BackendObjects == {cy, Var("x")}

\* prob += obj
BackendBuild ==
    \E obj \in BackendObjects : IAdd(obj, NoName)

\* prob.solve(solver)
BackendSolve ==
    /\ \E env \in BackendEnvs(solver.class) :
          Solved(LpProblem_solve(solver, objective, constraints, status,
                                 disk, env), env)
    /\ pop' = Op("solve")
    /\ UNCHANGED <<constraints, lastUnused, noOverlap>>
    /\ UNCHANGED <<exprVars, consVars, solver, ident>>

InitBackend ==
    /\ IdleExpr /\ IdleCons /\ IdleProb /\ IdleValue
    /\ solver \in AllSolvers
    /\ disk = {}
    /\ run = Ran("init", "none", <<>>, NoName, FALSE)

NextBackend ==
    \/ BackendBuild
    \/ BackendSolve

SpecBackend == InitBackend /\ [][NextBackend]_vars

\* C11: a solve whose solver process ended with a nonzero exit code fails
\* with an error, for every backend and both values of msg
C11_NonzeroExitFails ==
    (run.op = "solve" /\ run.wrote /\ run.rc # 0) => run.err # "none"

\* C12: a solve whose solver process exited with 0 while no solution file
\* exists fails with an error and leaves the status of the problem as it
\* was, for every backend
C12_MissingSolutionFails ==
    [][(/\ run'.op = "solve" /\ run'.wrote
        /\ run'.rc = 0 /\ ~run'.solWritten
        /\ TmpSol(solver) \notin disk)
       => (run'.err # "none" /\ status' = status)]_vars

\* C13: GLPK_CMD turns the status word of the solution file into a status
\* by the fixed table (OPTIMAL and INTEGER OPTIMAL give Optimal, INTEGER
\* NON-OPTIMAL Feasible, INFEASIBLE (FINAL) and INTEGER EMPTY Infeasible,
\* UNBOUNDED Unbounded, UNDEFINED and INTEGER UNDEFINED Undefined) and
\* fails with a value error for every other word
C13_GlpkStatusTable ==
    (/\ run.op = "solve" /\ solver.class = "GLPK_CMD"
     /\ run.err \in {"none", "KeyError", "ValueError"})
    => CASE run.word \in {"OPTIMAL", "INTEGER OPTIMAL"} ->
                run.err # "ValueError" /\ status = LpStatusOptimal
         [] run.word = "INTEGER NON-OPTIMAL" ->
                run.err # "ValueError" /\ status = LpStatusFeasible
         [] run.word \in {"INFEASIBLE (FINAL)", "INTEGER EMPTY"} ->
                run.err # "ValueError" /\ status = LpStatusInfeasible
         [] run.word = "UNBOUNDED" ->
                run.err # "ValueError" /\ status = LpStatusUnbounded
         [] run.word \in {"UNDEFINED", "INTEGER UNDEFINED"} ->
                run.err # "ValueError" /\ status = LpStatusUndefined
         [] OTHER -> run.err = "ValueError"

\* C13: a GLPK_CMD solve has read INTEGER NON-OPTIMAL and returned
C13_Witness ==
    /\ run.op = "solve" /\ solver.class = "GLPK_CMD"
    /\ run.err = "none" /\ run.word = "INTEGER NON-OPTIMAL"
    /\ status = LpStatusFeasible

\* C14: COIN_CMD with mip true solves a problem that has an integer variable
\* with CBC, and every such solve that returns normally sets the status
\* Undefined, whatever the solution file holds
C14_CbcStatusUndefined ==
    (/\ run.op = "solve" /\ run.wrote
     /\ solver.class = "COIN_CMD" /\ solver.mip
     /\ isMIP(objective, constraints))
    => /\ "cbc" \in run.drive /\ "clp" \notin run.drive
       /\ run.err = "none" => status = LpStatusUndefined

\* C14: COIN_CMD with mip true has solved a problem with an integer
\* variable and returned, the solution file marking a row with **
C14_Witness ==
    /\ run.op = "solve" /\ run.err = "none"
    /\ solver.class = "COIN_CMD" /\ solver.mip
    /\ isMIP(objective, constraints)
    /\ run.word = "**" /\ "cbc" \in run.drive
    /\ status = LpStatusUndefined

\* C15: with mip false no backend is driven to an integer solve of a
\* problem that has integer variables: COIN_CMD runs clp and never cbc,
\* GLPK_CMD passes --nomip, CPLEX_CMD gives change problem relaxed_milp and
\* never mipopt, XPRESS gives no GLOBAL and reads an LP file without the
\* sections Generals and Binaries
C15_NoIntegerSolveWithoutMip ==
    (/\ run.op = "solve" /\ run.wrote
     /\ ~solver.mip /\ isMIP(objective, constraints))
    => CASE solver.class = "COIN_CMD" ->
                "clp" \in run.drive /\ "cbc" \notin run.drive
         [] solver.class = "GLPK_CMD" -> "--nomip" \in run.drive
         [] solver.class = "CPLEX_CMD" ->
                /\ "change problem relaxed_milp" \in run.drive
                /\ "mipopt" \notin run.drive
         [] OTHER ->
                run.drive \cap {"GLOBAL", "Generals", "Binaries"} = {}

\* C15: XPRESS with mip false has solved a problem with an integer variable
C15_Witness ==
    /\ run.op = "solve" /\ run.err = "none"
    /\ solver.class = "XPRESS" /\ ~solver.mip
    /\ isMIP(objective, constraints)
    /\ "xpress" \in run.drive

(***************************************************************************)
(* The variables of a problem are given values with assign, and valid is   *)
(* asked whether the values satisfy the problem.  One of the variables of  *)
(* the objective is a second LpVariable made with the name of x.           *)
(***************************************************************************)
MaxEps == 1
Epsilons == 0..MaxEps
Values == {Num(n) : n \in {-1, 1, Den, Den + 1}}
ValueNames == {"x", "y", "z"}

cEq == [relational(Var("y"), Num(1), LpConstraintEQ) EXCEPT !.name = "eq"]
cLe == [cx EXCEPT !.name = "le"]
eTwin == add(LpAffineExpression(Var("y")), Var(Twin))
ValueObjects == {eTwin, Var("y"), cy, cLe, cEq}

\* prob += obj
ValueBuild ==
    \E obj \in ValueObjects : IAdd(obj, NoName)

\* prob.assign(values)
Assign ==
    /\ \E N \in SUBSET ValueNames, val \in Values :
          \E o \in LpProblem_assign(objective, constraints, varValue,
                                    [n \in N |-> val]) :
              /\ varValue' = o.varValue
              /\ run' = [Ran("assign", o.err, <<>>, NoName, FALSE) EXCEPT
                            !.values = [n \in N |-> val]]
    /\ pop' = Op("assign")
    /\ UNCHANGED <<objective, constraints, lastUnused, noOverlap, status>>
    /\ UNCHANGED <<exprVars, consVars, solver, disk, ident>>

\* prob.valid(eps)
Valid ==
    /\ \E eps \in Epsilons :
          run' = [Ran("valid", "none", <<>>, NoName, FALSE) EXCEPT
                    !.eps = eps,
                    !.valid = LpProblem_valid(objective, constraints,
                                              varValue, eps)]
    /\ pop' = Op("valid")
    /\ UNCHANGED <<objective, constraints, lastUnused, noOverlap, status>>
    /\ UNCHANGED <<exprVars, consVars, solver, disk, valueVars>>

InitValue == IdleExpr /\ IdleCons /\ IdleProb /\ IdleSolve /\ IdleValue

NextValue ==
    \/ ValueBuild
    \/ Assign
    \/ Valid

SpecValue == InitValue /\ [][NextValue]_vars

\* the names of the variables of the problem
variableNames(obj, cs) == {varName(v) : v \in variablesSet(obj, cs)}
\* no two variables of the problem have the same name
DistinctNames(obj, cs) ==
    \A u, v \in variablesSet(obj, cs) : varName(u) = varName(v) => u = v

\* C16: assign(values) gives every variable of the problem whose name is in
\* values the value values[name] and leaves every other variable as it was;
\* with a name that no variable of the problem has, it fails with an error
C16_AssignSetsNamed ==
    [][run'.op = "assign"
       => IF DOMAIN run'.values \subseteq variableNames(objective, constraints)
          THEN /\ run'.err = "none"
               /\ \A v \in AllVars :
                     varValue'[v] =
                        IF /\ v \in variablesSet(objective, constraints)
                           /\ varName(v) \in DOMAIN run'.values
                        THEN run'.values[varName(v)]
                        ELSE varValue[v]
          ELSE run'.err # "none"]_vars

\* C16, for a problem whose variables have pairwise distinct names:
\* assign(values) gives every variable of the problem whose name is in
\* values the value values[name] and leaves every other variable as it was;
\* with a name that no variable of the problem has, it fails with an error
C16_AssignSetsNamedDistinct ==
    [][(run'.op = "assign" /\ DistinctNames(objective, constraints))
       => IF DOMAIN run'.values \subseteq variableNames(objective, constraints)
          THEN /\ run'.err = "none"
               /\ \A v \in AllVars :
                     varValue'[v] =
                        IF /\ v \in variablesSet(objective, constraints)
                           /\ varName(v) \in DOMAIN run'.values
                        THEN run'.values[varName(v)]
                        ELSE varValue[v]
          ELSE run'.err # "none"]_vars

\* C16: assign has given y a value in a problem of x and y, and x has kept
\* the value it had
C16_Witness ==
    /\ run.op = "assign" /\ run.err = "none"
    /\ DOMAIN run.values = {"y"}
    /\ variablesSet(objective, constraints) = {"x", "y"}
    /\ varValue["x"] # PyNone /\ varValue["y"] # varValue["x"]
    /\ varValue["y"] = run.values["y"]

\* every variable of the problem has a value
AllValued == \A v \in variablesSet(objective, constraints) : varValue[v] # PyNone
\* the value of v lies within its bounds widened by eps
WithinBounds(v, eps) ==
    /\ lowBound(v) = PyNone \/ varValue[v].n >= lowBound(v).n * Den - eps
    /\ upBound(v) = PyNone \/ varValue[v].n <= upBound(v).n * Den + eps
\* the constraint c holds within eps
Holds(c, eps) ==
    CASE c.sense = LpConstraintEQ ->
            /\ LpAffineExpression_value(c, varValue).n <= eps
            /\ LpAffineExpression_value(c, varValue).n >= -eps
      [] c.sense = LpConstraintGE ->
            LpAffineExpression_value(c, varValue).n >= -eps
      [] OTHER -> LpAffineExpression_value(c, varValue).n <= eps
\* the value of v is a whole number within eps when v is an integer variable
WholeWithin(v, eps) ==
    cat(v) = LpInteger =>
        \E k \in -1..2 : /\ varValue[v].n - k * Den <= eps
                          /\ k * Den - varValue[v].n <= eps

\* C17: when every variable has a value, valid(eps) is true exactly when
\* every variable lies within its bounds widened by eps and every
\* constraint holds within eps
C17_ValidIffBoundsAndConstraints ==
    (run.op = "valid" /\ AllValued)
    => (run.valid <=>
            /\ \A v \in variablesSet(objective, constraints) :
                    WithinBounds(v, run.eps)
            /\ \A k \in DOMAIN constraints : Holds(constraints[k], run.eps))

\* C17, with the integer variables: when every variable has a value,
\* valid(eps) is true exactly when every variable lies within its bounds
\* widened by eps, every integer variable is within eps of a whole number
\* and every constraint holds within eps
C17_ValidIffBoundsIntegersAndConstraints ==
    (run.op = "valid" /\ AllValued)
    => (run.valid <=>
            /\ \A v \in variablesSet(objective, constraints) :
                    WithinBounds(v, run.eps) /\ WholeWithin(v, run.eps)
            /\ \A k \in DOMAIN constraints : Holds(constraints[k], run.eps))

\* C17: valid(0) has returned false for a problem with constraints whose
\* variables are within their bounds and whose constraints hold, the
\* integer variable y being half way between two whole numbers
C17_Witness ==
    /\ run.op = "valid" /\ AllValued /\ run.eps = 0 /\ ~run.valid
    /\ DOMAIN constraints # {}
    /\ "y" \in variablesSet(objective, constraints)
    /\ \A v \in variablesSet(objective, constraints) : WithinBounds(v, 0)
    /\ \A k \in DOMAIN constraints : Holds(constraints[k], 0)

(***************************************************************************)
(* Two operands, of which one at least is not a number, are compared with  *)
(* <=, >= or ==, or multiplied.                                            *)
(***************************************************************************)
CompareOperands ==
    {Var("x"), Var("y"), Num(-1), Num(0), Num(MaxCoef),
     Expr([v \in Vars |-> 1], 0, NoName),
     Expr([v \in {"x"} |-> MaxCoef], 1, NoName),
     Expr([v \in {"x"} |-> 1], 0, NoName),
     Expr([v \in {"y"} |-> -1], -1, NoName),
     Expr([v \in Vars |-> IF v = "x" THEN 1 ELSE -MaxCoef], 0, NoName),
     Expr(EmptyTerms, 1, NoName)}

\* a <= b, a >= b, a == b
Compare ==
    /\ \E a \in CompareOperands, b \in CompareOperands, sense \in Senses :
          /\ a.kind # "num" \/ b.kind # "num"
          /\ ca' = compare(a, b, sense)
          /\ cop' = [op |-> "compare", sense |-> sense,
                     other |-> [a |-> a, b |-> b], err |-> "none"]
    /\ UNCHANGED <<exprVars, probVars, solveVars, valueVars>>

\* Python's a * b: LpVariable.__mul__ wraps a, and a number on the left
\* leaves the product to __rmul__ of b
multiply(a, b) ==
    IF a.kind = "num"
    THEN mul(IF b.kind = "var" THEN LpAffineExpression(b) ELSE b, a)
    ELSE mul(IF a.kind = "var" THEN LpAffineExpression(a) ELSE a, b)

\* a * b
Multiply ==
    /\ \E a \in CompareOperands, b \in CompareOperands :
          /\ a.kind # "num" \/ b.kind # "num"
          /\ IF multiply(a, b).kind = "raise"
             THEN ea' = ea /\ err' = multiply(a, b).err
             ELSE ea' = multiply(a, b) /\ err' = "none"
          /\ cop' = [op |-> "mul", sense |-> 0,
                     other |-> [a |-> a, b |-> b], err |-> err']
    /\ UNCHANGED <<ca, probVars, solveVars, valueVars>>

InitBinary == IdleExpr /\ IdleCons /\ IdleProb /\ IdleSolve /\ IdleValue
NextCompare == Compare
SpecCompare == InitBinary /\ [][NextCompare]_vars
NextMultiply == Multiply
SpecMultiply == InitBinary /\ [][NextMultiply]_vars

\* the coefficient of v in the operand o, and the constant of o
coefOf(o, v) ==
    CASE o.kind = "num" -> 0
      [] o.kind = "var" -> IF o.v = v THEN 1 ELSE 0
      [] OTHER -> IF v \in DOMAIN o.terms THEN o.terms[v] ELSE 0
constOf(o) == IF o.kind = "num" THEN o.n ELSE IF o.kind = "var" THEN 0 ELSE o.constant
\* the values of x and y that the relations are tried with
Valuations ==
    {[v \in AllVars |-> IF v \in Vars THEN f[v] ELSE Num(0)] :
        f \in [Vars -> {Num(-1), Num(0), Num(Den)}]}
\* the value of the operand o
valueOf(o, vv) ==
    constOf(o) * Den + coefOf(o, "x") * vv["x"].n + coefOf(o, "y") * vv["y"].n
\* value(a) <= value(b), >=, = for the senses LE, GE, EQ
Related(a, b, sense, vv) ==
    CASE sense = LpConstraintLE -> valueOf(a, vv) <= valueOf(b, vv)
      [] sense = LpConstraintGE -> valueOf(a, vv) >= valueOf(b, vv)
      [] OTHER -> valueOf(a, vv) = valueOf(b, vv)
\* c has the terms and the constant of a - b
IsDifference(c, a, b) ==
    /\ \A v \in Vars : coefOf(c, v) = coefOf(a, v) - coefOf(b, v)
    /\ DOMAIN c.terms \subseteq Vars
    /\ c.constant = constOf(a) - constOf(b)

\* C18: a <= b, a >= b and a == b give a constraint with the terms and the
\* constant of a - b and the sense LE, GE, EQ, and valid(0) holds of it
\* exactly when value(a) <=, >=, = value(b)
C18_RelationalIsDifference ==
    cop.op = "compare"
    => /\ ca.kind = "constraint"
       /\ ca.sense = cop.sense
       /\ IsDifference(ca, cop.other.a, cop.other.b)
       /\ \A vv \in Valuations :
             LpConstraint_valid(ca, vv, 0).result
                <=> Related(cop.other.a, cop.other.b, cop.sense, vv)

\* C18, with the reflected operators: when a is not a number the constraint
\* has the terms and the constant of a - b and the sense LE, GE, EQ; when a
\* is a number it has those of b - a and the sense GE, LE, EQ; either way
\* valid(0) holds of it exactly when value(a) <=, >=, = value(b)
C18_RelationalIsDifferenceOrReflected ==
    cop.op = "compare"
    => /\ ca.kind = "constraint"
       /\ IF cop.other.a.kind # "num"
          THEN /\ ca.sense = cop.sense
               /\ IsDifference(ca, cop.other.a, cop.other.b)
          ELSE /\ ca.sense = -cop.sense
               /\ IsDifference(ca, cop.other.b, cop.other.a)
       /\ \A vv \in Valuations :
             LpConstraint_valid(ca, vv, 0).result
                <=> Related(cop.other.a, cop.other.b, cop.sense, vv)

\* C18: x + y <= an expression of x has given a constraint
C18_Witness ==
    /\ cop.op = "compare" /\ cop.sense = LpConstraintLE
    /\ cop.other.a = Expr([v \in Vars |-> 1], 0, NoName)
    /\ cop.other.b = Expr([v \in {"x"} |-> MaxCoef], 1, NoName)
    /\ ca.sense = LpConstraintLE
    /\ ca.constant = -1

\* the operand o contains a variable
HasVariable(o) == o.kind = "var" \/ (o.kind = "expr" /\ DOMAIN o.terms # {})
\* e has every coefficient and the constant of o multiplied by c
IsScaled(e, o, c) ==
    /\ \A v \in Vars : coefOf(e, v) = c * coefOf(o, v)
    /\ DOMAIN e.terms \subseteq Vars
    /\ e.constant = c * constOf(o)

\* C19: the product of two operands that both contain a variable fails
\* with an error and leaves the expression that was there; when one side
\* is a pure constant c, the product has every coefficient and the
\* constant of the other side multiplied by c
C19_ProductScalesOrFails ==
    [][cop'.op = "mul"
       => IF HasVariable(cop'.other.a) /\ HasVariable(cop'.other.b)
          THEN err' # "none" /\ ea' = ea
          ELSE /\ err' = "none"
               /\ IF HasVariable(cop'.other.a)
                  THEN IsScaled(ea', cop'.other.a, constOf(cop'.other.b))
                  ELSE IsScaled(ea', cop'.other.b, constOf(cop'.other.a))]_vars

\* C19: a number has been multiplied by an expression that has a term and
\* a constant
C19_Witness ==
    /\ cop.op = "mul" /\ cop.err = "none"
    /\ cop.other.a = Num(MaxCoef)
    /\ cop.other.b = Expr([v \in {"y"} |-> -1], -1, NoName)
    /\ ea.constant = -MaxCoef

(***************************************************************************)
(* The rows of the LP file.  A row is written from the name of the row and *)
(* the terms of the expression in the order in which the dict gives them;  *)
(* of every string the model keeps the length: of a name its length, of a  *)
(* term its coefficient and the length of the name of its variable.        *)
(***************************************************************************)
LpCplexLPLineSize == 78
MaxTerms == 2

\* len("%.12g" % n) and len(str(n)) of a whole number n
RECURSIVE digits(_)
digits(n) ==
    IF n < 0 THEN 1 + digits(-n)
    ELSE IF n < 10 THEN 1 ELSE 1 + digits(n \div 10)

\* the length of the piece ns of one term
pieceLen(val, vlen, notFirst) ==
    (IF val < 0 \/ notFirst THEN 3 ELSE 1)
        + (IF val = 1 \/ val = -1 THEN vlen
           ELSE digits(IF val < 0 THEN -val ELSE val) + 1 + vlen)

\* the loop over the terms from the i-th on: sl is the length of the line
\* that is being filled, out the lengths of the lines that are finished
RECURSIVE rowLoop(_, _, _, _)
rowLoop(terms, i, sl, out) ==
    IF i > Len(terms) THEN [sl |-> sl, out |-> out]
    ELSE IF sl + pieceLen(terms[i].val, terms[i].vlen, i > 1) > LpCplexLPLineSize
    THEN rowLoop(terms, i + 1, pieceLen(terms[i].val, terms[i].vlen, i > 1),
                 Append(out, sl))
    ELSE rowLoop(terms, i + 1,
                 sl + pieceLen(terms[i].val, terms[i].vlen, i > 1), out)

\* the end of a row: the last piece ns goes on the line or on one of its own
rowEnd(r, ns) ==
    IF r.sl + ns > LpCplexLPLineSize THEN r.out \o <<r.sl, ns>>
    ELSE Append(r.out, r.sl + ns)

\* LpAffineExpression.asCplexLpAffineExpression(name, constant): the
\* lengths of the lines
asCplexLpAffineExpression(nameLen, terms, c, constant) ==
    rowEnd(rowLoop(terms, 1, nameLen + 1, <<>>),
           IF c = 0 /\ Len(terms) = 0 THEN 1 + digits(c)
           ELSE IF constant /\ c < 0 THEN 3 + digits(-c)
           ELSE IF constant /\ c > 0 THEN 3 + digits(c)
           ELSE 0)

\* len(LpConstraintSenses[sense])
senseLen(sense) == IF sense = LpConstraintEQ THEN 1 ELSE 2

\* LpConstraint.asCplexLpConstraint(name): the lengths of the lines
zeroAdded(r, empty) == IF empty THEN [r EXCEPT !.sl = r.sl + 1] ELSE r
asCplexLpConstraint(nameLen, terms, c, sense) ==
    rowEnd(zeroAdded(rowLoop(terms, 1, nameLen + 1, <<>>),
                     c = 0 /\ Len(terms) = 0),
           1 + senseLen(sense) + 1 + digits(-c))

NameLens == {3, LpCplexLPLineSize - 1, LpCplexLPLineSize}
VarLens == {1, LpCplexLPLineSize \div 2, LpCplexLPLineSize}
RowTerms ==
    UNION {[1..k -> [val : {-MaxCoef, 1}, vlen : VarLens]] :
           k \in 0..MaxTerms}

\* the objective row, as writeLP writes it (constant = 0) and as
\* asCplexLpAffineExpression writes it by default
WriteObjectiveRow ==
    /\ \E nameLen \in NameLens, terms \in RowTerms, c \in -1..1,
          constant \in BOOLEAN :
          run' = [Ran("objective row", "none", <<>>, NoName, FALSE) EXCEPT
                    !.lines = asCplexLpAffineExpression(nameLen, terms, c,
                                                        constant)]
    /\ UNCHANGED <<exprVars, consVars, probVars, solver, disk, valueVars>>

\* a constraint row
WriteConstraintRow ==
    /\ \E nameLen \in NameLens, terms \in RowTerms, c \in -1..1,
          sense \in Senses :
          run' = [Ran("constraint row", "none", <<>>, NoName, FALSE) EXCEPT
                    !.lines = asCplexLpConstraint(nameLen, terms, c, sense)]
    /\ UNCHANGED <<exprVars, consVars, probVars, solver, disk, valueVars>>

InitRow == IdleExpr /\ IdleCons /\ IdleProb /\ IdleSolve /\ IdleValue
NextRow ==
    \/ WriteObjectiveRow
    \/ WriteConstraintRow
SpecRow == InitRow /\ [][NextRow]_vars

\* C20: every line of the objective row and of every constraint row has at
\* most 78 characters, whatever the row name, the variable names and the
\* coefficients are
C20_LinesWithinLineSize ==
    run.op \in {"objective row", "constraint row"}
    => \A i \in DOMAIN run.lines : run.lines[i] <= 78

(***************************************************************************)
(* The BOUNDS section of the MPS file.  A record is its type and the       *)
(* number that its text denotes; a bound is None or a whole number.        *)
(***************************************************************************)
RECURSIVE pow10(_)
pow10(k) == IF k = 0 THEN 1 ELSE 10 * pow10(k - 1)

\* the number that "% .5e" % n denotes: n with six significant digits, the
\* seventh rounded to the nearest, a tie to the even digit
e5(n) ==
    LET a == IF n < 0 THEN -n ELSE n
        p == pow10(IF digits(a) > 6 THEN digits(a) - 6 ELSE 0)
        q == a \div p
        r == a % p
        m == IF 2 * r > p \/ (2 * r = p /\ q % 2 = 1) THEN q + 1 ELSE q
    IN  IF n < 0 THEN -(m * p) ELSE m * p

Record(type, value) == [type |-> type, value |-> value]

\* LpProblem.writeMPS: the records of the BOUNDS section for one variable
LpProblem_writeMPS_bounds(lb, ub, vcat, mip) ==
    IF lb # PyNone /\ lb = ub THEN <<Record("FX", Num(e5(lb.n)))>>
    ELSE IF lb = Num(0) /\ ub = Num(1) /\ mip /\ vcat = LpInteger
    THEN <<Record("BV", PyNone)>>
    ELSE (IF lb # PyNone
          THEN IF lb # Num(0) \/ (mip /\ vcat = LpInteger /\ ub = PyNone)
               THEN <<Record("LO", Num(e5(lb.n)))>>
               ELSE <<>>
          ELSE IF ub # PyNone THEN <<Record("MI", PyNone)>>
               ELSE <<Record("FR", PyNone)>>)
         \o (IF ub # PyNone THEN <<Record("UP", Num(e5(ub.n)))>> ELSE <<>>)

\* the bounds that a reader of the MPS format takes from the records of
\* one variable: None stands for the infinite bound
RECURSIVE readBounds(_, _, _)
readBounds(recs, lo, up) ==
    IF recs = <<>> THEN <<lo, up>>
    ELSE LET t == Head(recs).type
             v == Head(recs).value
         IN  CASE t = "FX" -> readBounds(Tail(recs), v, v)
               [] t = "LO" -> readBounds(Tail(recs), v, up)
               [] t = "UP" -> readBounds(Tail(recs), lo, v)
               [] t = "MI" -> readBounds(Tail(recs), PyNone, up)
               [] t = "FR" -> readBounds(Tail(recs), PyNone, PyNone)
               [] OTHER -> readBounds(Tail(recs), Num(0), Num(1))
\* the defaults of the MPS format: lower bound 0, no upper bound
readBack(recs) == readBounds(recs, Num(0), PyNone)

BoundValues == {PyNone} \cup {Num(n) : n \in {-1, 0, 1, 2, 999999, 1000001, 1234567}}
Cats == {LpContinuous, LpInteger}

\* the BOUNDS records of a variable LpVariable(name, lb, ub, vcat), as
\* writeMPS(filename, mip = mip) writes them
WriteBounds ==
    /\ \E lb \in BoundValues, ub \in BoundValues, vcat \in Cats, mip \in BOOLEAN :
          /\ IF lb = PyNone \/ ub = PyNone THEN TRUE ELSE lb.n <= ub.n
          /\ run' = [Ran("bounds", "none", <<>>, NoName, FALSE) EXCEPT
                        !.args = [lowBound |-> lb, upBound |-> ub,
                                  cat |-> vcat, mip |-> mip],
                        !.lines = LpProblem_writeMPS_bounds(lb, ub, vcat, mip)]
    /\ UNCHANGED <<exprVars, consVars, probVars, solver, disk, valueVars>>

InitBounds == IdleExpr /\ IdleCons /\ IdleProb /\ IdleSolve /\ IdleValue
NextBounds == WriteBounds
SpecBounds == InitBounds /\ [][NextBounds]_vars

\* C21: for every variable with lowBound <= upBound, of either category and
\* for mip true and false, the BOUNDS records of the MPS file, read under
\* the defaults of the format, give back exactly (lowBound, upBound)
C21_BoundsRoundTrip ==
    run.op = "bounds"
    => readBack(run.lines) = <<run.args.lowBound, run.args.upBound>>

(***************************************************************************)
(* The files of the writers.  A file is kept as what its lines say: the    *)
(* name of the objective row, the terms of the objective, the constraints, *)
(* and the variables in the order in which the sections list them.  The    *)
(* user's variables are the same objects from call to call; __dummy is a   *)
(* new LpVariable in every call, whose address and hash are new.           *)
(***************************************************************************)
\* the variables of S in the order order, which holds the user's variables
listed(S, order) == SelectSeq(order, LAMBDA v : v \in S)
\* seq with __dummy after its first i items
placed(seq, i) ==
    SubSeq(seq, 1, i) \o <<DummyVar>> \o SubSeq(seq, i + 1, Len(seq))
\* the lists that hold the variables S in the order of their identities
byIdentity(S, order) ==
    IF DummyVar \in S
    THEN {placed(listed(S \ {DummyVar}, order), i) :
            i \in 0..Len(listed(S \ {DummyVar}, order))}
    ELSE {listed(S, order)}

\* LpVariable.isPositive
isPositive(v) == lowBound(v) = Num(0) /\ upBound(v) = PyNone

\* LpProblem.writeLP: the file, of the objective obj that fixObjective has
\* left and the sorted list vs of variables() (sos1 and sos2 are empty, so
\* that writeSOS writes nothing)
LpFile(obj, cs, vs, writeSOS, mip) ==
    [objName |-> objName(obj),
     objective |-> obj.terms,
     rows |-> cs,
     bounds |-> IF mip
                THEN SelectSeq(vs, LAMBDA v :
                        ~(isPositive(v) /\ cat(v) = LpContinuous) /\ ~isBinary(v))
                ELSE SelectSeq(vs, LAMBDA v : ~isPositive(v)),
     generals |-> IF mip
                  THEN SelectSeq(vs, LAMBDA v : cat(v) = LpInteger /\ ~isBinary(v))
                  ELSE <<>>,
     binaries |-> IF mip THEN SelectSeq(vs, LAMBDA v : isBinary(v)) ELSE <<>>]

\* "X%07d" % i, for i < 10
XName(i) == "X000000" \o ToString(i)
\* LpProblem.normalisedNames: variablesNames, by the name of the variable;
\* of two variables with one name the later one of vs gives the number
variablesNames(vs) ==
    [n \in {varName(vs[i]) : i \in DOMAIN vs} |->
        XName((CHOOSE i \in DOMAIN vs :
                  /\ varName(vs[i]) = n
                  /\ \A j \in DOMAIN vs : varName(vs[j]) = n => j <= i) - 1)]

\* the name of the column of v
columnName(vs, v, rename) ==
    IF rename THEN variablesNames(vs)[varName(v)] ELSE varName(v)

\* LpProblem.writeMPS: the file, of the objective cobj, the name objNm of
\* its row and the list vs of variables(); a column is the name of the
\* variable, whether the integer markers enclose it, its coefficients in
\* the rows and in the objective
MpsFile(cobj, objNm, cs, vs, mpsSense, rename, mip) ==
    [sense |-> IF mpsSense = 0 THEN ProblemSense ELSE mpsSense,
     name |-> IF rename THEN "MODEL" ELSE "NoName",
     objName |-> objNm,
     rows |-> [k \in DOMAIN cs |-> cs[k].sense],
     columns |-> [i \in DOMAIN vs |->
                    [name |-> columnName(vs, vs[i], rename),
                     marked |-> mip /\ cat(vs[i]) = LpInteger,
                     coefs |-> [k \in {k \in DOMAIN cs :
                                         \E u \in DOMAIN cs[k].terms :
                                             varName(u) = varName(vs[i])} |->
                                  cs[k].terms[CHOOSE u \in DOMAIN cs[k].terms :
                                                 varName(u) = varName(vs[i])]],
                     obj |-> IF vs[i] \in DOMAIN cobj.terms
                             THEN Num(cobj.terms[vs[i]]) ELSE PyNone]],
     rhs |-> [k \in DOMAIN cs |-> -cs[k].constant],
     bounds |-> [i \in DOMAIN vs |->
                   [name |-> columnName(vs, vs[i], rename),
                    records |-> LpProblem_writeMPS_bounds(
                                    lowBound(vs[i]), upBound(vs[i]),
                                    cat(vs[i]), mip)]]]

\* the objective of the MPS file: cobj of writeMPS
cobjOf(obj, mpsSense) ==
    IF (IF mpsSense = 0 THEN ProblemSense ELSE mpsSense) # ProblemSense
    THEN neg(fixObjective(obj).objective)
    ELSE fixObjective(obj).objective

WriteObjects == {cy, cx, Var("x"), Num(1), e1}
WriteNames == {NoName, "cost"}

\* prob += obj, or prob += (obj, given)
WriteBuild ==
    \E obj \in WriteObjects, given \in WriteNames : IAdd(obj, given)

\* prob.writeLP(OutFile, writeSOS, mip)
WriteLPFile ==
    /\ \E writeSOS \in BOOLEAN, mip \in BOOLEAN :
          \E vs \in byIdentity(variablesSet(fixObjective(objective).objective,
                                            constraints), ident.sort) :
              run' = [Ran("writeLP", "none", vs,
                          LpProblem_writeLP(objective).objName, FALSE) EXCEPT
                         !.args = [writeSOS |-> writeSOS, mip |-> mip],
                         !.lines = <<LpFile(fixObjective(objective).objective,
                                            constraints, vs, writeSOS, mip)>>]
    /\ objective' = LpProblem_writeLP(objective).objective
    /\ disk' = disk \cup {OutFile}
    /\ pop' = Op("writeLP")
    /\ UNCHANGED <<constraints, lastUnused, noOverlap, status>>
    /\ varValue' = fixValues(fixObjective(objective), varValue)
    /\ UNCHANGED <<exprVars, consVars, solver, ident>>

\* prob.writeMPS(OutFile, mpsSense, rename, mip)
WriteMPSFile ==
    /\ \E mpsSense \in {0, LpMinimize, LpMaximize}, rename \in BOOLEAN,
          mip \in BOOLEAN :
          /\ objective' = LpProblem_writeMPS(objective, mpsSense, rename).objective
          /\ \E vs \in byIdentity(variablesSet(fixObjective(objective).objective,
                                               constraints), ident.keys) :
                run' = [Ran("writeMPS", "none", vs,
                            LpProblem_writeMPS(objective, mpsSense, rename).objName,
                            FALSE) EXCEPT
                           !.args = [mpsSense |-> mpsSense, rename |-> rename,
                                     mip |-> mip],
                           !.lines = <<MpsFile(
                               cobjOf(objective, mpsSense),
                               LpProblem_writeMPS(objective, mpsSense, rename).objName,
                               constraints, vs, mpsSense, rename, mip)>>]
    /\ disk' = disk \cup {OutFile}
    /\ pop' = Op("writeMPS")
    /\ UNCHANGED <<constraints, lastUnused, noOverlap, status>>
    /\ varValue' = fixValues(fixObjective(objective), varValue)
    /\ UNCHANGED <<exprVars, consVars, solver, ident>>

InitWrite ==
    /\ IdleExpr /\ IdleCons /\ IdleProb /\ IdleSolve
    /\ varValue = NoValues
    /\ \E a \in Perms(Vars), h \in Perms(Vars) : ident = Identity(a, h)

NextWrite ==
    \/ WriteBuild
    \/ WriteLPFile
    \/ WriteMPSFile

SpecWrite == InitWrite /\ [][NextWrite]_vars

\* C22: the same writer, called twice in a row with the same arguments on a
\* problem that is not modified in between, writes the same file twice,
\* also when the objective is absent, a pure constant, or named
C22_SameFileTwice ==
    [][(/\ run.op \in {"writeLP", "writeMPS"}
        /\ run'.op = run.op
        /\ run'.args = run.args)
       => run'.lines = run.lines]_vars

\* C25: writeLP and writeMPS, for every value of their arguments, leave the
\* problem as it was when they return: the objective has the same terms,
\* constant and name as before (an absent objective is absent), and the
\* constraints and the status are unchanged
C25_WritersLeaveProblem ==
    [][run'.op \in {"writeLP", "writeMPS"}
       => /\ IF objective = PyNone THEN objective' = PyNone
             ELSE /\ objective' # PyNone
                  /\ objective'.terms = objective.terms
                  /\ objective'.constant = objective.constant
                  /\ objective'.name = objective.name
          /\ constraints' = constraints
          /\ status' = status]_vars

(***************************************************************************)
(* The copies of a problem.  A field of the copy is an object that the     *)
(* original holds too (shared), or an object of its own; obj is its value. *)
(***************************************************************************)
Shared(o) == [shared |-> TRUE, obj |-> o]
Own(o) == [shared |-> FALSE, obj |-> o]

\* LpProblem.copy: the expressions are copied by reference
LpProblem_copy(obj, cs) ==
    [objective |-> Shared(obj),
     constraints |-> [k \in DOMAIN cs |-> Shared(cs[k])]]

\* LpProblem.deepcopy: lpcopy is a new LpProblem, and the objective of self
\* is copied when that of lpcopy is not None
LpProblem_deepcopy(obj, cs) ==
    LET lpcopy == Problem(PyNone, EmptyTerms, 0, TRUE)
    IN  [objective |-> IF lpcopy.objective # PyNone THEN Own(copy(obj))
                       ELSE Own(lpcopy.objective),
         constraints |-> [k \in DOMAIN cs |-> Own(copy(cs[k]))]]

\* prob.copy()
Copy ==
    /\ run' = [Ran("copy", "none", <<>>, NoName, FALSE) EXCEPT
                  !.lines = <<LpProblem_copy(objective, constraints)>>]
    /\ pop' = Op("copy")
    /\ UNCHANGED <<objective, constraints, lastUnused, noOverlap, status>>
    /\ UNCHANGED <<exprVars, consVars, solver, disk, valueVars>>

\* prob.deepcopy()
DeepCopy ==
    /\ run' = [Ran("deepcopy", "none", <<>>, NoName, FALSE) EXCEPT
                  !.lines = <<LpProblem_deepcopy(objective, constraints)>>]
    /\ pop' = Op("deepcopy")
    /\ UNCHANGED <<objective, constraints, lastUnused, noOverlap, status>>
    /\ UNCHANGED <<exprVars, consVars, solver, disk, valueVars>>

InitCopy == IdleExpr /\ IdleCons /\ IdleProb /\ IdleSolve /\ IdleValue

NextCopy ==
    \/ WriteBuild
    \/ Copy
    \/ DeepCopy

SpecCopy == InitCopy /\ [][NextCopy]_vars

\* a and b have the same terms and constant and, if constraints, sense
SameValue(a, b) ==
    IF a = PyNone \/ b = PyNone THEN a = b
    ELSE /\ a.kind = b.kind
         /\ a.terms = b.terms
         /\ a.constant = b.constant
         /\ a.kind = "constraint" => a.sense = b.sense

\* C23: deepcopy() returns a problem whose objective and constraints have
\* the same terms, constants and senses as those of the original, and none
\* of its expressions is an object that the original holds
C23_DeepCopyByValue ==
    run.op = "deepcopy"
    => /\ SameValue(run.lines[1].objective.obj, objective)
       /\ objective # PyNone => ~run.lines[1].objective.shared
       /\ DOMAIN run.lines[1].constraints = DOMAIN constraints
       /\ \A k \in DOMAIN constraints :
             /\ SameValue(run.lines[1].constraints[k].obj, constraints[k])
             /\ ~run.lines[1].constraints[k].shared

(***************************************************************************)
(* A constraint is multiplied and divided by a number.                     *)
(***************************************************************************)
\* the sense of c combined with that of the constraint other, as __mul__
\* and __div__ of LpConstraint combine them
senseCombined(c, other) ==
    IF c.kind = "raise" THEN c
    ELSE IF c.sense = 0 THEN [c EXCEPT !.sense = other.sense]
    ELSE IF other.sense # 0 THEN [c EXCEPT !.sense = c.sense * other.sense]
    ELSE c

\* LpConstraint.__mul__, and __rmul__, which calls it
LpConstraint_mul(con, other) ==
    IF other.kind = "constraint" THEN senseCombined(mul(con, other), other)
    ELSE mul(con, other)

\* LpConstraint.__div__: what is not an LpConstraint is multiplied by
LpConstraint_div(con, other) ==
    IF other.kind = "constraint" THEN senseCombined(div(con, other), other)
    ELSE mul(con, other)

Scalars == {Num(k) : k \in {-MaxCoef, -1, 0, 1, MaxCoef}}

\* ca * k, k * ca
ConsMul ==
    /\ \E k \in Scalars : ConsReturn("mul", k, LpConstraint_mul(ca, k))
    /\ UNCHANGED <<exprVars, probVars, solveVars, valueVars>>

\* ca / k
ConsDiv ==
    /\ \E k \in Scalars \ {Num(0)} : ConsReturn("div", k, LpConstraint_div(ca, k))
    /\ UNCHANGED <<exprVars, probVars, solveVars, valueVars>>

InitScale == IdleExpr /\ IdleCons /\ IdleProb /\ IdleSolve /\ IdleValue

NextScale ==
    \/ ConsNew
    \/ ConsMul
    \/ ConsDiv

SpecScale == InitScale /\ [][NextScale]_vars

\* C24: a constraint divided by a nonzero number k is a constraint of the
\* same sense whose coefficients and constant are those of the original
\* divided by k, as the division of the LpAffineExpression by k gives them
C24_DivisionDivides ==
    [][(cop'.op = "div" /\ cop'.err = "none")
       => /\ ca'.kind = "constraint"
          /\ ca'.sense = ca.sense
          /\ ca'.terms = div(LpAffineExpression(ca), cop'.other).terms
          /\ ca'.constant = div(LpAffineExpression(ca), cop'.other).constant]_vars

\* C27: for every constraint c and every number k, negative ones too, k * c
\* holds under every valuation of the variables under which c holds
C27_ProductImplied ==
    [][(cop'.op = "mul" /\ cop'.err = "none")
       => \A vv \in Valuations :
             LpConstraint_valid(ca, vv, 0).result
                => LpConstraint_valid(ca', vv, 0).result]_vars

(***************************************************************************)
(* The sum and the difference of two constraints, among the operations of  *)
(* SpecCons.                                                               *)
(***************************************************************************)
\* ---- sums and differences of constraints: new constraints, c + o, c - o ----
InitSum == IdleExpr /\ IdleCons /\ IdleProb /\ IdleSolve /\ IdleValue

NextSum ==
    \/ ConsNew
    \/ ConsAdd
    \/ ConsSub

SpecSum == InitSum /\ [][NextSum]_vars

\* what ca + o or ca - o returns, by the operation that cop names
sumOrDifference(c, o, op) ==
    IF op = "add" THEN LpConstraint_add(c, o) ELSE LpConstraint_sub(c, o)

\* C26: for constraints c1 and c2 of any senses, c1 + c2 and c1 - c2 hold
\* under every valuation of the variables under which c1 and c2 both hold
\* (valid(0)), and the result has the sense EQ only when both operands have
C26_SumAndDifferenceImplied ==
    [][(cop'.op \in {"add", "sub"} /\ cop'.err = "none")
       => \A o \in ConsPool :
             (cop'.other = Seen(o) /\ ca' = sumOrDifference(ca, o, cop'.op))
             => /\ \A vv \in Valuations :
                      (/\ LpConstraint_valid(ca, vv, 0).result
                       /\ LpConstraint_valid(o, vv, 0).result)
                      => LpConstraint_valid(ca', vv, 0).result
                /\ ca'.sense = LpConstraintEQ
                      => (ca.sense = LpConstraintEQ /\ o.sense = LpConstraintEQ)]_vars

\* C26: an LE constraint has been subtracted from an LE constraint, and the
\* result has variables
C26_Witness ==
    /\ cop.op = "sub" /\ cop.err = "none"
    /\ cop.sense = LpConstraintLE
    /\ cop.other = [kind |-> "constraint", sense |-> LpConstraintLE]
    /\ ca.sense = LpConstraintLE
    /\ len(ca) > 0

(***************************************************************************)
(* The worst violation: the variables of a problem are given values with   *)
(* assign, and infeasibilityGap is asked for.  A gap, like a value, is     *)
(* kept as the whole number of its parts of size 1 / Den.                  *)
(***************************************************************************)
abs(n) == IF n < 0 THEN -n ELSE n
max(a, b) == IF a >= b THEN a ELSE b

\* round(value) - value of the float n / Den; round() takes a half away
\* from zero
roundDiff(n) ==
    IF 2 * (n % Den) < Den THEN -(n % Den)
    ELSE IF 2 * (n % Den) > Den THEN Den - (n % Den)
    ELSE IF n >= 0 THEN Den - (n % Den) ELSE -(n % Den)

\* LpVariable.infeasibilityGap without the test of integer variables
LpVariable_infeasibilityGap_boundsOnly(v, val, mip) ==
    IF val = PyNone THEN Raise("ValueError")
    ELSE IF upBound(v) # PyNone /\ val.n > upBound(v).n * Den
    THEN Num(val.n - upBound(v).n * Den)
    ELSE IF lowBound(v) # PyNone /\ val.n < lowBound(v).n * Den
    THEN Num(val.n - lowBound(v).n * Den)
    ELSE Num(0)

\* LpVariable.infeasibilityGap
LpVariable_infeasibilityGap(v, val, mip) ==
    IF val = PyNone THEN Raise("ValueError")
    ELSE IF upBound(v) # PyNone /\ val.n > upBound(v).n * Den
    THEN Num(val.n - upBound(v).n * Den)
    ELSE IF lowBound(v) # PyNone /\ val.n < lowBound(v).n * Den
    THEN Num(val.n - lowBound(v).n * Den)
    ELSE IF mip /\ cat(v) = LpInteger /\ roundDiff(val.n) # 0
    THEN Num(roundDiff(val.n))
    ELSE Num(0)

\* the first loop of LpProblem.infeasibilityGap over the variables vs
RECURSIVE gapOfVariables(_, _, _, _)
gapOfVariables(vs, vv, mip, gap) ==
    IF vs = <<>> THEN Num(gap)
    ELSE LET g == LpVariable_infeasibilityGap(Head(vs), vv[Head(vs)], mip)
         IN  IF g.kind = "raise" THEN g
             ELSE gapOfVariables(Tail(vs), vv, mip, max(abs(g.n), gap))

\* its second loop over the constraints of the names S
RECURSIVE gapOfConstraints(_, _, _, _)
gapOfConstraints(cs, S, vv, gap) ==
    IF S = {} THEN Num(gap)
    ELSE LET k == CHOOSE n \in S : TRUE
         IN  IF LpConstraint_valid(cs[k], vv, 0).err # "none"
             THEN Raise(LpConstraint_valid(cs[k], vv, 0).err)
             ELSE IF ~LpConstraint_valid(cs[k], vv, 0).result
             THEN gapOfConstraints(
                      cs, S \ {k}, vv,
                      max(abs(LpAffineExpression_value(cs[k], vv).n), gap))
             ELSE gapOfConstraints(cs, S \ {k}, vv, gap)

\* LpProblem.infeasibilityGap, the variables being listed as vs
LpProblem_infeasibilityGap(cs, vs, vv, mip) ==
    LET gap == gapOfVariables(vs, vv, mip, 0)
    IN  IF gap.kind = "raise" THEN gap
        ELSE gapOfConstraints(cs, DOMAIN cs, vv, gap.n)

\* prob.infeasibilityGap(mip)
InfeasibilityGap ==
    /\ \E mip \in BOOLEAN, vs \in variables(objective, constraints) :
          LET gap == LpProblem_infeasibilityGap(constraints, vs, varValue, mip)
          IN  run' = [Ran("infeasibilityGap",
                          IF gap.kind = "raise" THEN gap.err ELSE "none",
                          <<>>, NoName, FALSE) EXCEPT
                         !.args = [mip |-> mip],
                         !.lines = IF gap.kind = "raise" THEN <<>>
                                   ELSE <<gap.n>>]
    /\ pop' = Op("infeasibilityGap")
    /\ UNCHANGED <<objective, constraints, lastUnused, noOverlap, status>>
    /\ UNCHANGED <<exprVars, consVars, solver, disk, valueVars>>

InitGap == IdleExpr /\ IdleCons /\ IdleProb /\ IdleSolve /\ IdleValue

NextGap ==
    \/ ValueBuild
    \/ Assign
    \/ InfeasibilityGap

SpecGap == InitGap /\ [][NextGap]_vars

\* C28: when every variable of the problem has a value,
\* infeasibilityGap(mip = true) returns a number that is never negative and
\* is 0 exactly when valid(0) is true; when some variable has no value,
\* infeasibilityGap fails with an error and returns no number
C28_GapZeroIffValid ==
    (run.op = "infeasibilityGap")
    => /\ (AllValued /\ run.args.mip)
            => /\ run.err = "none"
               /\ run.lines[1] >= 0
               /\ run.lines[1] = 0
                     <=> LpProblem_valid(objective, constraints, varValue, 0)
       /\ ~AllValued => (run.err # "none" /\ run.lines = <<>>)

\* C28: infeasibilityGap(mip = true) has returned a gap above 0 for a
\* problem with constraints whose variables all have values within their
\* bounds and whose constraints all hold
C28_Witness ==
    /\ run.op = "infeasibilityGap" /\ run.err = "none"
    /\ AllValued /\ run.args.mip
    /\ run.lines[1] > 0
    /\ DOMAIN constraints # {}
    /\ \A v \in variablesSet(objective, constraints) : WithinBounds(v, 0)
    /\ \A k \in DOMAIN constraints : Holds(constraints[k], 0)

(***************************************************************************)
(* A solve with COIN_CMD and mip false: solve_CLP writes the MPS file with *)
(* renamed columns, and readsol_CLP reads the solution file line by line.  *)
(* The file is kept as the lines before its first blank line; a line is    *)
(* the name and the value it gives and whether ** marks it.                *)
(***************************************************************************)
Line(name, value, marked) == [name |-> name, value |-> value, marked |-> marked]

\* reverseVn of readsol_CLP
reverseVn(names) ==
    [n \in {names[k] : k \in DOMAIN names} |->
        CHOOSE k \in DOMAIN names : names[k] = n]

\* the loop of readsol_CLP over the lines of the file from line i on
RECURSIVE readLines(_, _, _, _)
readLines(file, i, rev, values) ==
    IF i > Len(file) THEN values
    ELSE readLines(file, i + 1, rev,
                   IF file[i].name \in DOMAIN rev
                   THEN [values EXCEPT ![rev[file[i].name]] = file[i].value]
                   ELSE values)

\* readsol_CLP without the values 0.0 it starts from
readsol_CLP_noDefault(file, vs, names) ==
    [status |-> IF \E i \in DOMAIN file : file[i].marked
                THEN LpStatusInfeasible ELSE LpStatusOptimal,
     values |-> LET rev == reverseVn(names)
                    told == {rev[file[i].name] :
                                i \in {j \in DOMAIN file : file[j].name \in DOMAIN rev}}
                IN  readLines(file, 1, rev, [n \in told |-> Num(0)])]

\* COIN_CMD.readsol_CLP: the status and the values by name
readsol_CLP(file, vs, names) ==
    [status |-> IF \E i \in DOMAIN file : file[i].marked
                THEN LpStatusInfeasible ELSE LpStatusOptimal,
     values |-> readLines(file, 1, reverseVn(names),
                          [n \in {varName(vs[i]) : i \in DOMAIN vs} |-> Num(0)])]

\* what readsol_CLP finds in the file: the mark of its status
clpSol(file) ==
    Sol(IF \E i \in DOMAIN file : file[i].marked THEN "**" ELSE "", TRUE, TRUE)

ClpFiles ==
    {<<>>,
     <<Line(XName(1), Num(Den + 1), FALSE)>>,
     <<Line(XName(1), Num(Den + 1), FALSE), Line("x", Num(1), FALSE)>>,
     <<Line(XName(0), Num(1), FALSE), Line(XName(0), Num(Den + 1), FALSE)>>,
     <<Line(XName(0), Num(1), FALSE), Line(XName(1), Num(1), FALSE)>>,
     <<Line(XName(2), Num(1), TRUE)>>}
\* the executable is not found, or the process exits with an error, or it
\* exits with 0 and has written the solution file
ClpEnvs ==
    {Env(FALSE, 0, FALSE, Sol("?", FALSE, TRUE), FALSE),
     Env(TRUE, 1, FALSE, Sol("?", FALSE, TRUE), FALSE),
     Env(TRUE, 0, TRUE, Sol("", TRUE, TRUE), FALSE)}
ClpObjects == {cy, Var("x"), eTwin}

\* prob += obj
ClpBuild ==
    \E obj \in ClpObjects : IAdd(obj, NoName)

\* prob.solve(COIN_CMD(mip = 0)): vs is the list that variables() returns in
\* writeMPS, f what fixObjective has returned, r what the solve returns; the
\* names of values are the names of vs, which variablesDict() holds, and
\* lp.assign(values) returns
ClpSolved(file, vs, f, r) ==
    /\ objective' = r.objective
    /\ status' = r.status
    /\ disk' = r.disk
    /\ IF r.err # "none" THEN varValue' = fixValues(f, varValue)
       ELSE \E o \in LpProblem_assign(
                        f.objective, constraints, fixValues(f, varValue),
                        readsol_CLP(file, vs, variablesNames(vs)).values) :
                /\ o.err = "none"
                /\ varValue' = fixValues(f, o.varValue)
    /\ run' = [Ran("solveCLP", r.err, vs, NoName, r.wrote) EXCEPT
                  !.args = [file |-> file,
                            names |-> variablesNames(vs),
                            columns |-> [i \in DOMAIN vs |->
                                            columnName(vs, vs[i], TRUE)]],
                  !.drive = IF r.wrote THEN driven(solver, f.objective, constraints)
                            ELSE {}]

SolveCLP ==
    /\ \E env \in ClpEnvs :
       \E file \in IF env.exec /\ env.rc = 0 THEN ClpFiles ELSE {<<>>} :
          \E vs \in variables(fixObjective(objective).objective, constraints) :
              ClpSolved(file, vs, fixObjective(objective),
                        LpProblem_solve(solver, objective, constraints, status,
                                        disk, [env EXCEPT !.sol = clpSol(file)]))
    /\ pop' = Op("solve")
    /\ UNCHANGED <<constraints, lastUnused, noOverlap>>
    /\ UNCHANGED <<exprVars, consVars, solver, ident>>

InitClp ==
    /\ IdleExpr /\ IdleCons /\ IdleProb /\ IdleValue
    /\ solver \in {Solver("COIN_CMD", k, TRUE, FALSE) : k \in BOOLEAN}
    /\ disk = {}
    /\ run = Ran("init", "none", <<>>, NoName, FALSE)

NextClp ==
    \/ ClpBuild
    \/ SolveCLP

SpecClp == InitClp /\ [][NextClp]_vars

\* the lines of the file that give a value for the column col
linesOf(file, col) == {i \in DOMAIN file : file[i].name = col}

\* C29: in a COIN CLP solve of a problem whose variable names are pairwise
\* distinct, the rename map written with the MPS file is injective; after a
\* normal return every variable of the problem has the value that the
\* solution file gives (last) for the column it was written as, the value
\* 0.0 when the file does not mention that column, and so has a value
C29_ClpValuesByColumn ==
    (/\ run.op = "solveCLP" /\ run.err = "none"
     /\ DistinctNames(objective, constraints))
    => /\ \A m, n \in DOMAIN run.args.names :
             run.args.names[m] = run.args.names[n] => m = n
       /\ \A v \in variablesSet(objective, constraints) :
             \E i \in DOMAIN run.vs :
                /\ run.vs[i] = v
                /\ run.args.columns[i] = XName(i - 1)
                /\ run.args.names[varName(v)] = XName(i - 1)
                /\ IF linesOf(run.args.file, XName(i - 1)) = {}
                   THEN varValue[v] = Num(0)
                   ELSE \E k \in linesOf(run.args.file, XName(i - 1)) :
                           /\ varValue[v] = run.args.file[k].value
                           /\ \A j \in linesOf(run.args.file, XName(i - 1)) : j <= k
       /\ AllValued

\* C29: a CLP solve has returned on a problem of the variables x and y, the
\* solution file giving a value for the second column and for the name x,
\* and none for the first column
C29_Witness ==
    /\ run.op = "solveCLP" /\ run.err = "none"
    /\ variablesSet(objective, constraints) = {"x", "y"}
    /\ Len(run.vs) = 2
    /\ run.args.file = <<Line(XName(1), Num(Den + 1), FALSE), Line("x", Num(1), FALSE)>>
    /\ varValue[run.vs[1]] = Num(0)
    /\ varValue[run.vs[2]] = Num(Den + 1)

\* C30: when the solve of a command-line backend fails because the solver
\* cannot be executed, because the solver process reported an error or
\* because the solution file holds an unknown status word, the status of
\* the problem and the value of every variable are as before the call
C30_FailedSolveLeavesStatusAndValues ==
    [][(/\ run'.op = "solve"
        /\ run'.err \in {"cannot execute", "execute", "ValueError"})
       => /\ status' = status
          /\ \A v \in AllVars :
                (v # DummyVar \/ v \in variablesSet(objective, constraints))
                => varValue'[v] = varValue[v]]_vars

\* C30: a solve has failed on an unknown status word after an earlier solve
\* had set the status Optimal and given x a value
C30_Witness ==
    /\ run.op = "solve" /\ run.err = "ValueError"
    /\ status = LpStatusOptimal
    /\ varValue["x"] # PyNone

====
